---- MODULE Spec2Model ----
(***************************************************************************)
(* fj: a command-line JSON formatter.                                      *)
(*                                                                         *)
(* Byte strings are sequences of one-character strings.  The formatter     *)
(* package (Format, sortJSONKeys, ValidateJSON, AutoCorrect) is modelled   *)
(* as operators over such sequences, together with the parts of            *)
(* encoding/json they call (Unmarshal into interface{}, Valid,             *)
(* MarshalIndent).  The driver (main: LoadConfig, parseFlags, getInput,    *)
(* the two Format calls, AutoCorrect and the sinks) is a state machine.    *)
(*                                                                         *)
(* A byte that has no character in a string literal has a name instead    *)
(* (x00 .. xFF, see Bytes).                                                *)
(*                                                                         *)
(* Limits of the text model: numbers of at most 15 significant digits,     *)
(* no number in the subnormal range (decimal exponent between -324 and     *)
(* -308), integers of magnitude at most MaxInt (a larger one is treated    *)
(* as out of range), case folding of ASCII letters plus the two runes      *)
(* that fold onto them (U+017F, U+212A), and encoding/json as of Go 1.22   *)
(* (backspace and form feed are written \b and \f).                        *)
(***************************************************************************)
EXTENDS Integers, Sequences, FiniteSets, TLC

\* ------------------------------------------------------------------------
\* Characters and strings
\* ------------------------------------------------------------------------

\* The 256 bytes in code order.  A byte that cannot be written in a string
\* literal has a name, x and the two hex digits of its code (code 96, the
\* backtick, is spelt out); like a character, it is one element of a byte
\* string.
Bytes ==
  << "x00", "x01", "x02", "x03", "x04", "x05", "x06", "x07", "x08", "\t",
     "\n", "x0B", "\f", "\r", "x0E", "x0F", "x10", "x11", "x12", "x13",
     "x14", "x15", "x16", "x17", "x18", "x19", "x1A", "x1B", "x1C", "x1D",
     "x1E", "x1F", " ", "!", "\"", "#", "$", "%", "&", "'", "(", ")", "*",
     "+", ",", "-", ".", "/", "0", "1", "2", "3", "4", "5", "6", "7", "8",
     "9", ":", ";", "<", "=", ">", "?", "@", "A", "B", "C", "D", "E", "F",
     "G", "H", "I", "J", "K", "L", "M", "N", "O", "P", "Q", "R", "S", "T",
     "U", "V", "W", "X", "Y", "Z", "[", "\\", "]", "^", "_", "(backtick)",
     "a", "b", "c", "d", "e", "f", "g", "h", "i", "j", "k", "l", "m", "n",
     "o", "p", "q", "r", "s", "t", "u", "v", "w", "x", "y", "z", "{", "|",
     "}", "~", "x7F", "x80", "x81", "x82", "x83", "x84", "x85", "x86",
     "x87", "x88", "x89", "x8A", "x8B", "x8C", "x8D", "x8E", "x8F", "x90",
     "x91", "x92", "x93", "x94", "x95", "x96", "x97", "x98", "x99", "x9A",
     "x9B", "x9C", "x9D", "x9E", "x9F", "xA0", "xA1", "xA2", "xA3", "xA4",
     "xA5", "xA6", "xA7", "xA8", "xA9", "xAA", "xAB", "xAC", "xAD", "xAE",
     "xAF", "xB0", "xB1", "xB2", "xB3", "xB4", "xB5", "xB6", "xB7", "xB8",
     "xB9", "xBA", "xBB", "xBC", "xBD", "xBE", "xBF", "xC0", "xC1", "xC2",
     "xC3", "xC4", "xC5", "xC6", "xC7", "xC8", "xC9", "xCA", "xCB", "xCC",
     "xCD", "xCE", "xCF", "xD0", "xD1", "xD2", "xD3", "xD4", "xD5", "xD6",
     "xD7", "xD8", "xD9", "xDA", "xDB", "xDC", "xDD", "xDE", "xDF", "xE0",
     "xE1", "xE2", "xE3", "xE4", "xE5", "xE6", "xE7", "xE8", "xE9", "xEA",
     "xEB", "xEC", "xED", "xEE", "xEF", "xF0", "xF1", "xF2", "xF3", "xF4",
     "xF5", "xF6", "xF7", "xF8", "xF9", "xFA", "xFB", "xFC", "xFD", "xFE",
     "xFF" >>

Code == [c \in {Bytes[k] : k \in 1..Len(Bytes)} |-> (CHOOSE k \in 1..Len(Bytes) : Bytes[k] = c) - 1]

\* The code of a byte, and the byte of a code.
CharCode(c) == Code[c]

Byte(b) == Bytes[b + 1]

Digits == {"0", "1", "2", "3", "4", "5", "6", "7", "8", "9"}

IsDigit(c) == c \in Digits

DigitVal(c) == CharCode(c) - 48

DigitChar(n) == Byte(48 + n)

\* Byte-wise lexicographic order on strings (Go's < on strings).
RECURSIVE StrLess(_, _)
StrLess(a, b) ==
  IF Len(b) = 0 THEN FALSE
  ELSE IF Len(a) = 0 THEN TRUE
  ELSE IF CharCode(a[1]) < CharCode(b[1]) THEN TRUE
  ELSE IF CharCode(a[1]) > CharCode(b[1]) THEN FALSE
  ELSE StrLess(Tail(a), Tail(b))

\* strings.Repeat(unit, n) for n >= 0.
RECURSIVE Repeat(_, _)
Repeat(unit, n) == IF n <= 0 THEN <<>> ELSE unit \o Repeat(unit, n - 1)

\* s[i..] (1-based, empty when i is past the end).
Drop(s, i) == SubSeq(s, i, Len(s))

\* strings.HasPrefix
HasPrefix(s, p) == Len(s) >= Len(p) /\ SubSeq(s, 1, Len(p)) = p

\* strings.HasSuffix
HasSuffix(s, p) ==
  Len(s) >= Len(p) /\ SubSeq(s, Len(s) - Len(p) + 1, Len(s)) = p

\* strings.Index, 1-based; 0 when absent.
RECURSIVE IndexFrom(_, _, _)
IndexFrom(s, p, i) ==
  IF i + Len(p) - 1 > Len(s) THEN 0
  ELSE IF SubSeq(s, i, i + Len(p) - 1) = p THEN i
  ELSE IndexFrom(s, p, i + 1)

Index(s, p) == IndexFrom(s, p, 1)

\* strings.Contains
Contains(s, p) == Index(s, p) # 0

\* The white space of the JSON grammar.
IsSpace(c) == c \in {" ", "\t", "\r", "\n"}

\* s[i] exists and its byte value is in lo..hi.
ByteIn(s, i, lo, hi) ==
  i <= Len(s) /\ CharCode(s[i]) >= lo /\ CharCode(s[i]) <= hi

\* utf8.DecodeRune at s[i]: the number of bytes of the encoding that
\* starts there, 0 when the bytes there are not UTF-8.
utf8Size(s, i) ==
  LET b == CharCode(s[i]) IN
    IF b < 128 THEN 1
    ELSE IF b >= 194 /\ b <= 223 /\ ByteIn(s, i + 1, 128, 191) THEN 2
    ELSE IF /\ \/ b = 224 /\ ByteIn(s, i + 1, 160, 191)
               \/ b >= 225 /\ b <= 239 /\ b # 237 /\ ByteIn(s, i + 1, 128, 191)
               \/ b = 237 /\ ByteIn(s, i + 1, 128, 159)
            /\ ByteIn(s, i + 2, 128, 191)
    THEN 3
    ELSE IF /\ \/ b = 240 /\ ByteIn(s, i + 1, 144, 191)
               \/ b >= 241 /\ b <= 243 /\ ByteIn(s, i + 1, 128, 191)
               \/ b = 244 /\ ByteIn(s, i + 1, 128, 143)
            /\ ByteIn(s, i + 2, 128, 191)
            /\ ByteIn(s, i + 3, 128, 191)
    THEN 4
    ELSE 0

\* The code point of the n bytes at s[i]; U+FFFD for n = 0.
RuneOf(s, i, n) ==
  IF n = 0 THEN 65533
  ELSE IF n = 1 THEN CharCode(s[i])
  ELSE IF n = 2 THEN (CharCode(s[i]) - 192) * 64 + (CharCode(s[i + 1]) - 128)
  ELSE IF n = 3
  THEN (CharCode(s[i]) - 224) * 4096 + (CharCode(s[i + 1]) - 128) * 64
         + (CharCode(s[i + 2]) - 128)
  ELSE (CharCode(s[i]) - 240) * 262144 + (CharCode(s[i + 1]) - 128) * 4096
         + (CharCode(s[i + 2]) - 128) * 64 + (CharCode(s[i + 3]) - 128)

\* utf8.EncodeRune
EncodeRune(r) ==
  IF r < 128 THEN <<Byte(r)>>
  ELSE IF r < 2048 THEN <<Byte(192 + (r \div 64)), Byte(128 + (r % 64))>>
  ELSE IF r < 65536
  THEN <<Byte(224 + (r \div 4096)), Byte(128 + ((r \div 64) % 64)), Byte(128 + (r % 64))>>
  ELSE <<Byte(240 + (r \div 262144)), Byte(128 + ((r \div 4096) % 64)),
         Byte(128 + ((r \div 64) % 64)), Byte(128 + (r % 64))>>

\* unicode.IsSpace
IsSpaceRune(r) ==
  \/ r \in {9, 10, 11, 12, 13, 32, 133, 160, 5760, 8232, 8233, 8239, 8287, 12288}
  \/ r >= 8192 /\ r <= 8202

\* strings.TrimSpace: the white space runes at both ends removed.
RECURSIVE TrimLeft(_)
TrimLeft(s) ==
  IF Len(s) = 0 THEN s
  ELSE LET n == utf8Size(s, 1) IN
         IF n > 0 /\ IsSpaceRune(RuneOf(s, 1, n))
         THEN TrimLeft(SubSeq(s, n + 1, Len(s))) ELSE s

RECURSIVE TrimRight(_)
TrimRight(s) ==
  LET ends == {k \in 1..4 : /\ k <= Len(s)
                            /\ utf8Size(s, Len(s) - k + 1) = k
                            /\ IsSpaceRune(RuneOf(s, Len(s) - k + 1, k))}
  IN  IF ends = {} THEN s
      ELSE TrimRight(SubSeq(s, 1, Len(s) - (CHOOSE k \in ends : TRUE)))

TrimSpace(s) == TrimRight(TrimLeft(s))

\* strings.Split(s, sep) for a one-character separator.
RECURSIVE Split(_, _)
Split(s, sep) ==
  LET k == Index(s, <<sep>>) IN
    IF k = 0 THEN <<s>>
    ELSE <<SubSeq(s, 1, k - 1)>> \o Split(Drop(s, k + 1), sep)

\* strings.Join(parts, sep)
RECURSIVE Join(_, _)
Join(parts, sep) ==
  IF Len(parts) = 0 THEN <<>>
  ELSE IF Len(parts) = 1 THEN parts[1]
  ELSE parts[1] \o sep \o Join(Tail(parts), sep)

\* strings.Replace(s, old, new, 1): the first occurrence only.  An empty
\* old matches at the very start.
ReplaceFirst(s, old, new) ==
  LET k == Index(s, old) IN
    IF k = 0 THEN s
    ELSE SubSeq(s, 1, k - 1) \o new \o Drop(s, k + Len(old))

\* strings.ReplaceAll(s, old, new) for a non-empty old.
RECURSIVE ReplaceAll(_, _, _)
ReplaceAll(s, old, new) ==
  LET k == Index(s, old) IN
    IF k = 0 THEN s
    ELSE SubSeq(s, 1, k - 1) \o new \o ReplaceAll(Drop(s, k + Len(old)), old, new)

\* ------------------------------------------------------------------------
\* JSON values: what json.Unmarshal stores in an interface{}
\* ------------------------------------------------------------------------
\* nil, bool, float64, string, []interface{} and map[string]interface{}.
\* A Go map keeps no insertion order, so an object is a function from its
\* keys to its values.  A float64 is held as sign, significant decimal
\* digits (no leading or trailing zero) and decimal point position: the
\* value is 0.digits * 10^dp.

Null == [t |-> "null"]

Bool(b) == [t |-> "bool", v |-> b]

Str(s) == [t |-> "str", v |-> s]

Arr(elems) == [t |-> "arr", v |-> elems]

Obj(m) == [t |-> "obj", v |-> m]

Num(neg, digits, dp) == [t |-> "num", neg |-> neg, digits |-> digits, dp |-> dp]

EmptyMap == [k \in {} |-> Null]

\* m[key] = val on a Go map: a repeated key replaces the earlier value.
MapPut(m, key, val) ==
  [k \in (DOMAIN m) \cup {key} |-> IF k = key THEN val ELSE m[k]]

\* reflect.DeepEqual on decoded values.
RECURSIVE DeepEqual(_, _)
DeepEqual(a, b) ==
  /\ a.t = b.t
  /\ CASE a.t = "null" -> TRUE
       [] a.t = "bool" -> a.v = b.v
       [] a.t = "str" -> a.v = b.v
       [] a.t = "num" ->
            /\ a.digits = b.digits
            /\ a.dp = b.dp
            /\ a.neg = b.neg \/ a.digits = <<>>
       [] a.t = "arr" ->
            /\ Len(a.v) = Len(b.v)
            /\ \A k \in 1..Len(a.v) : DeepEqual(a.v[k], b.v[k])
       [] a.t = "obj" ->
            /\ DOMAIN a.v = DOMAIN b.v
            /\ \A k \in DOMAIN a.v : DeepEqual(a.v[k], b.v[k])

\* ------------------------------------------------------------------------
\* Numbers: strconv.ParseFloat(s, 64) and the float encoder of Marshal
\* ------------------------------------------------------------------------

\* First index at or after j that holds no digit.
RECURSIVE ScanDigits(_, _)
ScanDigits(s, j) ==
  IF j <= Len(s) /\ IsDigit(s[j]) THEN ScanDigits(s, j + 1) ELSE j

RECURSIVE LeadingZeros(_)
LeadingZeros(ds) ==
  IF Len(ds) > 0 /\ ds[1] = "0" THEN 1 + LeadingZeros(Tail(ds)) ELSE 0

RECURSIVE StripTrailingZeros(_)
StripTrailingZeros(ds) ==
  IF Len(ds) > 0 /\ ds[Len(ds)] = "0"
  THEN StripTrailingZeros(SubSeq(ds, 1, Len(ds) - 1)) ELSE ds

\* The exponent digits as an integer; like ParseFloat it stops growing
\* once the value is past any exponent a float64 can have.
ExpCap == 10000

RECURSIVE ExpVal(_, _)
ExpVal(ds, n) ==
  IF Len(ds) = 0 THEN n
  ELSE ExpVal(Tail(ds), IF n < ExpCap THEN n * 10 + DigitVal(ds[1]) ELSE n)

\* Leading digits of 2^1024 - 2^970, the least decimal that rounds to +Inf.
InfDigits ==
  << "1", "7", "9", "7", "6", "9", "3", "1", "3", "4", "8", "6", "2", "3",
     "1", "5", "8", "0", "7", "9" >>

\* The decimal point position above which the value is infinite
\* (math.MaxFloat64 is about 1.8 * 10^308).
MaxDp == 309

\* The decimal point position below which the value rounds to zero
\* (the least subnormal float64 is about 4.9 * 10^-324).
MinDp == 0 - 323

\* The pieces of a number literal that starts at s[a] after its sign: ok
\* when each part the grammar requires has a digit, i the index after it.
NumberLiteral(s, neg, a, intEnd, fracEnd, eneg, expStart, expEnd) ==
  [ok |-> /\ intEnd > a
          /\ (fracEnd > intEnd => fracEnd > intEnd + 1)
          /\ (expStart > fracEnd => expEnd > expStart),
   i |-> expEnd,
   neg |-> neg,
   int |-> SubSeq(s, a, intEnd - 1),
   frac |-> SubSeq(s, intEnd + 1, fracEnd - 1),
   eneg |-> eneg,
   exp |-> SubSeq(s, expStart, expEnd - 1)]

\* The exponent part, if any, after the fraction that ends before s[fracEnd].
ScanExponent(s, neg, a, intEnd, fracEnd) ==
  IF fracEnd <= Len(s) /\ s[fracEnd] \in {"e", "E"}
  THEN IF fracEnd + 1 <= Len(s) /\ s[fracEnd + 1] \in {"+", "-"}
       THEN NumberLiteral(s, neg, a, intEnd, fracEnd, s[fracEnd + 1] = "-",
                          fracEnd + 2, ScanDigits(s, fracEnd + 2))
       ELSE NumberLiteral(s, neg, a, intEnd, fracEnd, FALSE,
                          fracEnd + 1, ScanDigits(s, fracEnd + 1))
  ELSE NumberLiteral(s, neg, a, intEnd, fracEnd, FALSE, fracEnd, fracEnd)

\* The fraction part, if any, after the integer part that ends before
\* s[intEnd].
ScanFraction(s, neg, a, intEnd) ==
  IF intEnd <= Len(s) /\ s[intEnd] = "."
  THEN ScanExponent(s, neg, a, intEnd, ScanDigits(s, intEnd + 1))
  ELSE ScanExponent(s, neg, a, intEnd, intEnd)

\* The integer part at s[a]: a lone 0, or digits.
ScanInteger(s, neg, a) ==
  ScanFraction(s, neg, a,
               IF a <= Len(s) /\ s[a] = "0" THEN a + 1 ELSE ScanDigits(s, a))

\* The scanner's number grammar: -? (0 | [1-9][0-9]*) (. [0-9]+)? ([eE] [+-]? [0-9]+)?
\* read at s[i].  Gives the pieces of the literal and the index after it.
ScanNumber(s, i) == ScanInteger(s, s[i] = "-", IF s[i] = "-" THEN i + 1 ELSE i)

\* The float64 with significant digits sig and decimal point position dp:
\* a range error at or above 2^1024 - 2^970, zero below the subnormals.
floatOfDigits(neg, sig, dp) ==
  IF sig = <<>> THEN [err |-> FALSE, v |-> Num(neg, <<>>, 0)]
  ELSE IF dp > MaxDp \/ (dp = MaxDp /\ ~StrLess(sig, InfDigits))
  THEN [err |-> TRUE, v |-> Num(neg, <<>>, 0)]
  ELSE IF dp < MinDp THEN [err |-> FALSE, v |-> Num(neg, <<>>, 0)]
  ELSE [err |-> FALSE, v |-> Num(neg, sig, dp)]

\* The digits all of a literal with lz leading zeros, the point after the
\* first `point` of them.
floatOfLiteral(neg, all, lz, point) ==
  floatOfDigits(neg, StripTrailingZeros(Drop(all, lz + 1)), point - lz)

\* d.convertNumber: the float64 a number literal denotes, or a range error.
convertNumber(lit) ==
  floatOfLiteral(lit.neg, lit.int \o lit.frac, LeadingZeros(lit.int \o lit.frac),
                 Len(lit.int) + (IF lit.eneg THEN 0 - ExpVal(lit.exp, 0)
                                 ELSE ExpVal(lit.exp, 0)))

\* strconv.Itoa for n >= 0.
RECURSIVE Itoa(_)
Itoa(n) ==
  IF n < 10 THEN <<DigitChar(n)>> ELSE Itoa(n \div 10) \o <<DigitChar(n % 10)>>

\* A float encoder whose exponent is one too large.
FormatFloatMutant(x) ==
  LET sign == IF x.neg THEN <<"-">> ELSE <<>>
      d == x.digits
      n == Len(d)
      ex == x.dp
  IN  IF n = 0 THEN sign \o <<"0">>
      ELSE IF x.dp < 0 - 5 \/ x.dp > 21
      THEN sign \o <<d[1]>> \o (IF n > 1 THEN <<".">> \o Tail(d) ELSE <<>>)
             \o <<"e">> \o (IF ex < 0 THEN <<"-">> ELSE <<"+">>)
             \o Itoa(IF ex < 0 THEN 0 - ex ELSE ex)
      ELSE IF x.dp <= 0
      THEN sign \o <<"0", ".">> \o Repeat(<<"0">>, 0 - x.dp) \o d
      ELSE IF x.dp >= n
      THEN sign \o d \o Repeat(<<"0">>, x.dp - n)
      ELSE sign \o SubSeq(d, 1, x.dp) \o <<".">> \o Drop(d, x.dp + 1)

\* Marshal's float encoder: the shortest digits, in %f form, or in %e form
\* when the magnitude is below 1e-6 or at least 1e21; a two-digit exponent
\* with a leading zero loses the zero.
FormatFloat(x) ==
  LET sign == IF x.neg THEN <<"-">> ELSE <<>>
      d == x.digits
      n == Len(d)
      ex == x.dp - 1
  IN  IF n = 0 THEN sign \o <<"0">>
      ELSE IF x.dp < 0 - 5 \/ x.dp > 21
      THEN sign \o <<d[1]>> \o (IF n > 1 THEN <<".">> \o Tail(d) ELSE <<>>)
             \o <<"e">> \o (IF ex < 0 THEN <<"-">> ELSE <<"+">>)
             \o Itoa(IF ex < 0 THEN 0 - ex ELSE ex)
      ELSE IF x.dp <= 0
      THEN sign \o <<"0", ".">> \o Repeat(<<"0">>, 0 - x.dp) \o d
      ELSE IF x.dp >= n
      THEN sign \o d \o Repeat(<<"0">>, x.dp - n)
      ELSE sign \o SubSeq(d, 1, x.dp) \o <<".">> \o Drop(d, x.dp + 1)

\* ------------------------------------------------------------------------
\* encoding/json: the decoder
\* ------------------------------------------------------------------------
\* A parse result: ok, the value, the index after it, and whether some
\* number literal in it is out of float64 range.

Fail == [ok |-> FALSE, v |-> Null, i |-> 0, ovf |-> FALSE]

Done(v, i, ovf) == [ok |-> TRUE, v |-> v, i |-> i, ovf |-> ovf]

RECURSIVE SkipWS(_, _)
SkipWS(s, i) == IF i <= Len(s) /\ IsSpace(s[i]) THEN SkipWS(s, i + 1) ELSE i

\* The characters w are spelled out at s[i].
LiteralAt(s, i, w) ==
  i + Len(w) - 1 <= Len(s) /\ SubSeq(s, i, i + Len(w) - 1) = w

\* A byte that is not UTF-8 on its own, and the three bytes of U+FFFD, the
\* rune encoding/json puts in the place of such a byte.
InvalidByte == "xFF"

ReplacementRune == <<"xEF", "xBF", "xBD">>

\* The character an escape sequence \c stands for; "" when \c is not one
\* of the two-character escapes.
Unescape(c) ==
  IF c \in {"\"", "\\", "/"} THEN c
  ELSE IF c = "b" THEN Byte(8)
  ELSE IF c = "f" THEN "\f"
  ELSE IF c = "n" THEN "\n"
  ELSE IF c = "r" THEN "\r"
  ELSE IF c = "t" THEN "\t"
  ELSE ""

\* The value of a hex digit, -1 for any other character.
HexVal(c) ==
  IF c \in Digits THEN DigitVal(c)
  ELSE IF c \in {"a", "b", "c", "d", "e", "f"} THEN CharCode(c) - 87
  ELSE IF c \in {"A", "B", "C", "D", "E", "F"} THEN CharCode(c) - 55
  ELSE 0 - 1

\* getu4: the number of the escape \uXXXX that starts at s[j], or -1.
getu4(s, j) ==
  IF /\ j + 5 <= Len(s)
     /\ s[j] = "\\"
     /\ s[j + 1] = "u"
     /\ \A k \in 2..5 : HexVal(s[j + k]) >= 0
  THEN HexVal(s[j + 2]) * 4096 + HexVal(s[j + 3]) * 256
         + HexVal(s[j + 4]) * 16 + HexVal(s[j + 5])
  ELSE 0 - 1

RECURSIVE ScanString(_, _, _)

\* The escape whose backslash is at s[j].  Of \uXXXX: a surrogate that the
\* escape of its pair follows is one rune with it, any other surrogate is
\* U+FFFD.
escapeAt(s, j, acc) ==
  IF j + 1 > Len(s) THEN Fail
  ELSE IF s[j + 1] = "u" THEN
    LET rr == getu4(s, j)
        r2 == getu4(s, j + 6)
    IN  IF rr < 0 THEN Fail
        ELSE IF rr < 55296 \/ rr > 57343
        THEN ScanString(s, j + 6, acc \o EncodeRune(rr))
        ELSE IF rr < 56320 /\ r2 >= 56320 /\ r2 <= 57343
        THEN ScanString(s, j + 12,
               acc \o EncodeRune(65536 + (rr - 55296) * 1024 + (r2 - 56320)))
        ELSE ScanString(s, j + 6, acc \o ReplacementRune)
  ELSE IF Unescape(s[j + 1]) = "" THEN Fail
  ELSE ScanString(s, j + 2, Append(acc, Unescape(s[j + 1])))

\* The rest of a string literal whose opening quote is before s[j]: a
\* control character ends it in error, UTF-8 is kept, and a byte that is
\* not UTF-8 becomes U+FFFD.
ScanString(s, j, acc) ==
  IF j > Len(s) THEN Fail
  ELSE IF s[j] = "\"" THEN Done(acc, j + 1, FALSE)
  ELSE IF s[j] = "\\" THEN escapeAt(s, j, acc)
  ELSE IF CharCode(s[j]) < 32 THEN Fail
  ELSE IF CharCode(s[j]) < 128 THEN ScanString(s, j + 1, Append(acc, s[j]))
  ELSE LET n == utf8Size(s, j) IN
         IF n = 0 THEN ScanString(s, j + 1, acc \o ReplacementRune)
         ELSE ScanString(s, j + n, acc \o SubSeq(s, j, j + n - 1))

True4 == <<"t", "r", "u", "e">>

False5 == <<"f", "a", "l", "s", "e">>

Null4 == <<"n", "u", "l", "l">>

RECURSIVE ParseValue(_, _)
RECURSIVE ParseElements(_, _, _, _)
RECURSIVE ParseMembers(_, _, _, _)

\* A string literal read as a value.
StringValue(lit) == IF lit.ok THEN Done(Str(lit.v), lit.i, FALSE) ELSE Fail

\* A number literal read as a value; c is its conversion.
NumberDone(c, i) == Done(c.v, i, c.err)

NumberValue(lit) == IF lit.ok THEN NumberDone(convertNumber(lit), lit.i) ELSE Fail

\* After '{' and white space, at s[j]: the empty object, or members.
ObjectAt(s, j) ==
  IF j <= Len(s) /\ s[j] = "}" THEN Done(Obj(EmptyMap), j + 1, FALSE)
  ELSE ParseMembers(s, j, EmptyMap, FALSE)

\* After '[' and white space, at s[j]: the empty array, or elements.
ArrayAt(s, j) ==
  IF j <= Len(s) /\ s[j] = "]" THEN Done(Arr(<<>>), j + 1, FALSE)
  ELSE ParseElements(s, j, <<>>, FALSE)

\* One JSON value starting at s[i].
ValueAt(s, i) ==
  IF i > Len(s) THEN Fail
  ELSE IF s[i] = "{" THEN ObjectAt(s, SkipWS(s, i + 1))
  ELSE IF s[i] = "[" THEN ArrayAt(s, SkipWS(s, i + 1))
  ELSE IF s[i] = "\"" THEN StringValue(ScanString(s, i + 1, <<>>))
  ELSE IF s[i] = "-" \/ IsDigit(s[i]) THEN NumberValue(ScanNumber(s, i))
  ELSE IF LiteralAt(s, i, True4) THEN Done(Bool(TRUE), i + 4, FALSE)
  ELSE IF LiteralAt(s, i, False5) THEN Done(Bool(FALSE), i + 5, FALSE)
  ELSE IF LiteralAt(s, i, Null4) THEN Done(Null, i + 4, FALSE)
  ELSE Fail

\* One JSON value starting at or after s[i0] (leading white space skipped).
ParseValue(s, i0) == ValueAt(s, SkipWS(s, i0))

\* After an element and white space, at s[j]: ',' and more, or ']'.
ElementSep(s, j, acc, ovf) ==
  IF j > Len(s) THEN Fail
  ELSE IF s[j] = "," THEN ParseElements(s, j + 1, acc, ovf)
  ELSE IF s[j] = "]" THEN Done(Arr(acc), j + 1, ovf)
  ELSE Fail

AfterElement(s, r, acc, ovf) ==
  IF ~r.ok THEN Fail
  ELSE ElementSep(s, SkipWS(s, r.i), Append(acc, r.v), ovf \/ r.ovf)

\* The elements of a non-empty array, the next one starting at s[i].
ParseElements(s, i, acc, ovf) == AfterElement(s, ParseValue(s, i), acc, ovf)

\* After a member and white space, at s[e]: ',' and more, or '}'.
MemberSep(s, e, acc, ovf) ==
  IF e > Len(s) THEN Fail
  ELSE IF s[e] = "," THEN ParseMembers(s, e + 1, acc, ovf)
  ELSE IF s[e] = "}" THEN Done(Obj(acc), e + 1, ovf)
  ELSE Fail

AfterMember(s, key, r, acc, ovf) ==
  IF ~r.ok THEN Fail
  ELSE MemberSep(s, SkipWS(s, r.i), MapPut(acc, key, r.v), ovf \/ r.ovf)

\* After a key and white space, at s[c]: ':' and the value.
MemberValue(s, key, c, acc, ovf) ==
  IF c > Len(s) \/ s[c] # ":" THEN Fail
  ELSE AfterMember(s, key, ParseValue(s, c + 1), acc, ovf)

MemberColon(s, lit, acc, ovf) ==
  IF ~lit.ok THEN Fail
  ELSE MemberValue(s, lit.v, SkipWS(s, lit.i), acc, ovf)

MemberKey(s, j, acc, ovf) ==
  IF j > Len(s) \/ s[j] # "\"" THEN Fail
  ELSE MemberColon(s, ScanString(s, j + 1, <<>>), acc, ovf)

\* The members of a non-empty object, the next key starting at or after s[i].
ParseMembers(s, i, acc, ovf) == MemberKey(s, SkipWS(s, i), acc, ovf)

\* A whole document: one value, then only white space.
WholeDocument(data, r) ==
  IF r.ok /\ SkipWS(data, r.i) > Len(data) THEN r ELSE Fail

ParseDocument(data) == WholeDocument(data, ParseValue(data, 1))

\* json.Valid(data): the grammar alone.
Valid(data) == ParseDocument(data).ok

\* json.Unmarshal(data, &v) with v an interface{}: a syntax error, or the
\* range error of a number no float64 holds, or the decoded value.
Decoded(r) == [err |-> ~r.ok \/ r.ovf, v |-> r.v]

Unmarshal(data) == Decoded(ParseDocument(data))

\* ------------------------------------------------------------------------
\* encoding/json: the encoder (MarshalIndent with an empty prefix)
\* ------------------------------------------------------------------------

\* An encoder that emits the keys in descending order.
RECURSIVE SortedKeysMutant(_)
SortedKeysMutant(S) ==
  IF S = {} THEN <<>>
  ELSE LET m == CHOOSE k \in S : \A o \in S \ {k} : StrLess(o, k)
       IN  <<m>> \o SortedKeysMutant(S \ {m})

\* The keys of a map in ascending byte order, as Marshal emits them.
RECURSIVE SortedKeys(_)
SortedKeys(S) ==
  IF S = {} THEN <<>>
  ELSE LET m == CHOOSE k \in S : \A o \in S \ {k} : StrLess(k, o)
       IN  <<m>> \o SortedKeys(S \ {m})

\* The hex digit of d, in lower case.
HexDigit(d) == Byte(IF d < 10 THEN 48 + d ELSE 87 + d)

\* An encoder that escapes nothing.
EscapeStringMutant(s) == s

\* The inside of a string literal as Marshal writes it, with the HTML
\* escaping that MarshalIndent keeps on: \u00XX for a control character
\* without a short escape and for < > &, \ufffd for a byte that is not
\* UTF-8, and U+2028 and U+2029 escaped.
RECURSIVE EscapeString(_)
EscapeString(s) ==
  IF Len(s) = 0 THEN <<>>
  ELSE
    LET b == CharCode(s[1])
        n == utf8Size(s, 1)
    IN  IF s[1] \in {"\"", "\\"} THEN <<"\\", s[1]>> \o EscapeString(Tail(s))
        ELSE IF b = 8 THEN <<"\\", "b">> \o EscapeString(Tail(s))
        ELSE IF b = 12 THEN <<"\\", "f">> \o EscapeString(Tail(s))
        ELSE IF b = 10 THEN <<"\\", "n">> \o EscapeString(Tail(s))
        ELSE IF b = 13 THEN <<"\\", "r">> \o EscapeString(Tail(s))
        ELSE IF b = 9 THEN <<"\\", "t">> \o EscapeString(Tail(s))
        ELSE IF b < 32 \/ s[1] \in {"<", ">", "&"}
        THEN <<"\\", "u", "0", "0", HexDigit(b \div 16), HexDigit(b % 16)>>
               \o EscapeString(Tail(s))
        ELSE IF n = 0
        THEN <<"\\", "u", "f", "f", "f", "d">> \o EscapeString(Tail(s))
        ELSE IF n = 3 /\ RuneOf(s, 1, 3) \in {8232, 8233}
        THEN <<"\\", "u", "2", "0", "2", HexDigit(RuneOf(s, 1, 3) % 16)>>
               \o EscapeString(SubSeq(s, 4, Len(s)))
        ELSE SubSeq(s, 1, n) \o EscapeString(SubSeq(s, n + 1, Len(s)))

Quote(s) == <<"\"">> \o EscapeString(s) \o <<"\"">>

\* An encoder that indents by one space a level whatever the unit.
NewLineMutant(indent, depth) == <<"\n">> \o Repeat(<<" ">>, depth)

\* A line break followed by depth copies of the indent unit.
NewLine(indent, depth) == <<"\n">> \o Repeat(indent, depth)

RECURSIVE Encode(_, _, _)
RECURSIVE EncodeElems(_, _, _)
RECURSIVE EncodeMembers(_, _, _, _)

\* The text of value v whose own line is indented depth levels: scalars on
\* one line, an empty container as its two brackets, any other container
\* with one element per line one level deeper and ": " after each key.
Encode(v, indent, depth) ==
  CASE v.t = "null" -> Null4
    [] v.t = "bool" -> IF v.v THEN True4 ELSE False5
    [] v.t = "num" -> FormatFloat(v)
    [] v.t = "str" -> Quote(v.v)
    [] v.t = "arr" ->
         IF Len(v.v) = 0 THEN <<"[", "]">>
         ELSE <<"[">> \o NewLine(indent, depth + 1)
                \o EncodeElems(v.v, indent, depth + 1)
                \o NewLine(indent, depth) \o <<"]">>
    [] v.t = "obj" ->
         IF DOMAIN v.v = {} THEN <<"{", "}">>
         ELSE <<"{">> \o NewLine(indent, depth + 1)
                \o EncodeMembers(SortedKeys(DOMAIN v.v), v.v, indent, depth + 1)
                \o NewLine(indent, depth) \o <<"}">>

EncodeElems(elems, indent, depth) ==
  Encode(elems[1], indent, depth)
    \o (IF Len(elems) = 1 THEN <<>>
        ELSE <<",">> \o NewLine(indent, depth)
               \o EncodeElems(Tail(elems), indent, depth))

EncodeMembers(keys, m, indent, depth) ==
  Quote(keys[1]) \o <<":", " ">> \o Encode(m[keys[1]], indent, depth)
    \o (IF Len(keys) = 1 THEN <<>>
        ELSE <<",">> \o NewLine(indent, depth)
               \o EncodeMembers(Tail(keys), m, indent, depth))

\* json.MarshalIndent(v, "", indent)
MarshalIndent(v, indent) == Encode(v, indent, 0)

\* ------------------------------------------------------------------------
\* package formatter
\* ------------------------------------------------------------------------

\* The keys of a map in the order a range loop happens to visit them.
RECURSIVE MapKeys(_)
MapKeys(S) ==
  IF S = {} THEN <<>>
  ELSE LET k == CHOOSE x \in S : TRUE IN <<k>> \o MapKeys(S \ {k})

\* sort.Strings: insertion into an ascending sequence.
RECURSIVE InsertSorted(_, _)
InsertSorted(k, sorted) ==
  IF Len(sorted) = 0 THEN <<k>>
  ELSE IF StrLess(sorted[1], k) THEN <<sorted[1]>> \o InsertSorted(k, Tail(sorted))
  ELSE <<k>> \o sorted

RECURSIVE sortStrings(_)
sortStrings(keys) ==
  IF Len(keys) = 0 THEN <<>>
  ELSE InsertSorted(keys[1], sortStrings(Tail(keys)))

RECURSIVE sortJSONKeys(_)
RECURSIVE sortedMapOf(_, _, _)
RECURSIVE sortedElems(_)

\* sortJSONKeys: an object becomes a new map filled key by key in sorted
\* order with the sorted values; an array has each element replaced by its
\* sorted form; any other value is returned as it is.
sortJSONKeys(data) ==
  IF data.t = "obj"
  THEN Obj(sortedMapOf(sortStrings(MapKeys(DOMAIN data.v)), data.v, EmptyMap))
  ELSE IF data.t = "arr" THEN Arr(sortedElems(data.v))
  ELSE data

sortedMapOf(keys, v, sortedMap) ==
  IF Len(keys) = 0 THEN sortedMap
  ELSE sortedMapOf(Tail(keys), v, MapPut(sortedMap, keys[1], sortJSONKeys(v[keys[1]])))

sortedElems(elems) ==
  IF Len(elems) = 0 THEN <<>>
  ELSE <<sortJSONKeys(elems[1])>> \o sortedElems(Tail(elems))

\* Format after json.Unmarshal gave u.
formatDecoded(u, opts) ==
  IF u.err THEN [kind |-> "err", bytes |-> <<>>]
  ELSE IF opts.IndentSpaces < 0 THEN [kind |-> "panic", bytes |-> <<>>]
  ELSE [kind |-> "ok",
        bytes |-> MarshalIndent(IF opts.SortKeys THEN sortJSONKeys(u.v) ELSE u.v,
                                Repeat(<<" ">>, opts.IndentSpaces))]

\* Format(data, opts): "err" with no bytes when the data does not decode,
\* "panic" when strings.Repeat is given a negative count, else "ok" with
\* the indented text of the (optionally key-sorted) value.
Format(data, opts) == formatDecoded(Unmarshal(data), opts)

\* A validator that checks the grammar only.
ValidateJSONMutant(data) == [valid |-> Valid(data), err |-> ~Valid(data)]

validity(u) == [valid |-> ~u.err, err |-> u.err]

\* ValidateJSON(data): (true, nil) or (false, err).
ValidateJSON(data) == validity(Unmarshal(data))

\* A line with the key before its first ':' put in quotes, unless the key
\* starts or ends with a quote.
quoteKey(line, key) ==
  IF ~HasPrefix(key, <<"\"">>) /\ ~HasSuffix(key, <<"\"">>)
  THEN ReplaceFirst(line, key, <<"\"">> \o key \o <<"\"">>)
  ELSE line

\* The unquoted-key step of AutoCorrect on one line.
fixLine(line) ==
  IF Contains(line, <<":">>)
  THEN quoteKey(line, TrimSpace(SubSeq(line, 1, Index(line, <<":">>) - 1)))
  ELSE line

RECURSIVE fixLines(_)
fixLines(lines) ==
  IF Len(lines) = 0 THEN <<>>
  ELSE <<fixLine(lines[1])>> \o fixLines(Tail(lines))

\* The text AutoCorrect validates: keys quoted line by line, then a comma
\* before a line break and a closing brace or bracket removed.
correctedText(data) ==
  ReplaceAll(ReplaceAll(Join(fixLines(Split(data, "\n")), <<"\n">>),
                        <<",", "\n", "}">>, <<"\n", "}">>),
             <<",", "\n", "]">>, <<"\n", "]">>)

\* An AutoCorrect that returns the repaired text whatever the validation
\* said.
validatedMutant(str, v) == [err |-> FALSE, bytes |-> str]

\* AutoCorrect after the repairs gave str.
validated(str, v) ==
  IF v.err THEN [err |-> TRUE, bytes |-> <<>>] ELSE [err |-> FALSE, bytes |-> str]

\* An AutoCorrect that does not validate what it repaired.
AutoCorrectMutant(data) == [err |-> FALSE, bytes |-> correctedText(data)]

\* AutoCorrect(data): the corrected text when it validates, else an error.
AutoCorrect(data) == validated(correctedText(data), ValidateJSON(correctedText(data)))

\* ------------------------------------------------------------------------
\* The driver's input resolution (getInput), both revisions in the tree
\* ------------------------------------------------------------------------

Letters ==
  {"a", "b", "c", "d", "e", "f", "g", "h", "i", "j", "k", "l", "m", "n", "o",
   "p", "q", "r", "s", "t", "u", "v", "w", "x", "y", "z",
   "A", "B", "C", "D", "E", "F", "G", "H", "I", "J", "K", "L", "M", "N", "O",
   "P", "Q", "R", "S", "T", "U", "V", "W", "X", "Y", "Z"}

\* ASCII lower-casing of one character.
ToLower(c) == IF CharCode(c) >= 65 /\ CharCode(c) <= 90 THEN Byte(CharCode(c) + 32) ELSE c

RECURSIVE LowerStr(_)
LowerStr(s) == IF Len(s) = 0 THEN <<>> ELSE <<ToLower(s[1])>> \o LowerStr(Tail(s))

\* The text with every rune that folds to an ASCII letter replaced by the
\* lower-case letter: the upper-case letters, U+017F (long s) and U+212A
\* (Kelvin sign).
RECURSIVE FoldStr(_)
FoldStr(s) ==
  IF Len(s) = 0 THEN <<>>
  ELSE IF Len(s) >= 2 /\ SubSeq(s, 1, 2) = <<Byte(197), Byte(191)>>
  THEN <<"s">> \o FoldStr(SubSeq(s, 3, Len(s)))
  ELSE IF Len(s) >= 3 /\ SubSeq(s, 1, 3) = <<Byte(226), Byte(132), Byte(170)>>
  THEN <<"k">> \o FoldStr(SubSeq(s, 4, Len(s)))
  ELSE <<ToLower(s[1])>> \o FoldStr(Tail(s))

\* strings.EqualFold(a, b) for b of ASCII characters, which is how the
\* program calls it; the key matching of encoding/json folds the same way.
EqualFold(a, b) == FoldStr(a) = FoldStr(b)

\* getScheme of net/url: the length of the scheme before a ':' (0 when the
\* text has no scheme), or -1 for a ':' in first place.
RECURSIVE schemeLen(_, _)
schemeLen(rawURL, i) ==
  IF i > Len(rawURL) THEN 0
  ELSE IF rawURL[i] \in Letters THEN schemeLen(rawURL, i + 1)
  ELSE IF IsDigit(rawURL[i]) \/ rawURL[i] \in {"+", "-", "."}
  THEN IF i = 1 THEN 0 ELSE schemeLen(rawURL, i + 1)
  ELSE IF rawURL[i] = ":" THEN IF i = 1 THEN 0 - 1 ELSE i - 1
  ELSE 0

\* The text up to the first occurrence of sep (all of it when absent).
Before(s, sep) ==
  LET k == Index(s, <<sep>>) IN IF k = 0 THEN s ELSE SubSeq(s, 1, k - 1)

\* url.Parse(input): the cases in which it reports an error, for text whose
\* authority, escapes and fragment are well formed: a control character,
\* a ':' in first place, or no scheme, no leading '/' and a ':' in the
\* first path segment.  The URL it returns is nil exactly when it reports
\* an error.
urlParse(input) ==
  LET u == Before(input, "#")
      n == schemeLen(u, 1)
      rest == Before(Drop(u, IF n > 0 THEN n + 2 ELSE 1), "?")
      bad == \/ \E k \in 1..Len(u) : CharCode(u[k]) < 32 \/ CharCode(u[k]) = 127
             \/ /\ u # <<"*">>
                /\ \/ n < 0
                   \/ /\ n = 0
                      /\ ~HasPrefix(rest, <<"/">>)
                      /\ Contains(Before(rest, "/"), <<":">>)
  IN  [err |-> bad, isNil |-> bad]

\* The scheme test of the cmd/fj driver; also the only texts for which
\* http.Get reaches the network layer.
IsHTTPURL(input) ==
  \/ HasPrefix(input, <<"h", "t", "t", "p", ":", "/", "/">>)
  \/ HasPrefix(input, <<"h", "t", "t", "p", "s", ":", "/", "/">>)

\* A prompt that takes any word for consent.
AffirmativeMutant(response) == Len(response) > 0

\* The answer test of the trust prompt.
Affirmative(response) ==
  EqualFold(response, <<"y">>) \/ EqualFold(response, <<"y", "e", "s">>)

\* What one call of getInput did: err is "none" or the kind of failure,
\* data the bytes returned, and whether it prompted, called http.Get, read
\* the token as a file, or validated it as literal JSON.
Resolved(err, data, prompted, fetched, readFile, checkedLiteral) ==
  [err |-> err, data |-> data, prompted |-> prompted, fetched |-> fetched,
   readFile |-> readFile, checkedLiteral |-> checkedLiteral]

\* readFromURL(url) given the outcome of http.Get: an error, a status
\* other than 200, a body that io.ReadAll fails on, or the body.
readFromURL(http, prompted) ==
  IF http.kind = "neterr" THEN Resolved("NetworkError", <<>>, prompted, TRUE, FALSE, FALSE)
  ELSE IF http.status # 200 THEN Resolved("HTTPError", <<>>, prompted, TRUE, FALSE, FALSE)
  ELSE IF http.kind = "cut" THEN Resolved("ReadError", <<>>, prompted, TRUE, FALSE, FALSE)
  ELSE Resolved("none", http.body, prompted, TRUE, FALSE, FALSE)

\* getInput of the revision with literal input: args are the positional
\* arguments, in the standard input, files the readable files, scan the
\* outcome of fmt.Scanln at the prompt and http the outcome of http.Get.
\* Standard input is closed (Stat and every read fail), fails when read,
\* or is in order.
getInput(args, trustAllURLs, in, files, scan, http) ==
  IF Len(args) <= 0 THEN
    IF in.fault = "closed" THEN Resolved("StatError", <<>>, FALSE, FALSE, FALSE, FALSE)
    ELSE IF ~in.charDevice
    THEN Resolved("NoInputProvided", <<>>, FALSE, FALSE, FALSE, FALSE)
    ELSE IF in.fault = "read" THEN Resolved("ReadError", <<>>, FALSE, FALSE, FALSE, FALSE)
    ELSE Resolved("none", in.data, FALSE, FALSE, FALSE, FALSE)
  ELSE
    LET input == TrimSpace(args[1])
        inputURL == urlParse(input)
    IN  IF inputURL.err
        THEN Resolved("InvalidURL", <<>>, FALSE, FALSE, FALSE, FALSE)
        ELSE IF ~inputURL.isNil THEN
          IF ~trustAllURLs /\ scan.err
          THEN Resolved("PromptReadError", <<>>, TRUE, FALSE, FALSE, FALSE)
          ELSE IF ~trustAllURLs /\ ~Affirmative(scan.response)
          THEN Resolved("URLAccessDenied", <<>>, TRUE, FALSE, FALSE, FALSE)
          ELSE readFromURL(http, ~trustAllURLs)
        ELSE IF input \in DOMAIN files
        THEN Resolved("none", files[input], FALSE, FALSE, TRUE, FALSE)
        ELSE IF ~Valid(input)
        THEN Resolved("InvalidLiteralInput", <<>>, FALSE, FALSE, TRUE, TRUE)
        ELSE Resolved("none", input, FALSE, FALSE, TRUE, TRUE)

\* getInput of the cmd/fj revision: standard input without arguments, a
\* prompted fetch for an http:// or https:// prefix, else the file.
getInputCmd(args, trustAllURLs, in, files, scan, http) ==
  IF Len(args) = 0 THEN
    IF in.fault # "none" THEN Resolved("ReadError", <<>>, FALSE, FALSE, FALSE, FALSE)
    ELSE Resolved("none", in.data, FALSE, FALSE, FALSE, FALSE)
  ELSE
    LET input == args[1] IN
      IF IsHTTPURL(input) THEN
        IF ~trustAllURLs /\ ~Affirmative(scan.response)
        THEN Resolved("URLAccessDenied", <<>>, TRUE, FALSE, FALSE, FALSE)
        ELSE readFromURL(http, ~trustAllURLs)
      ELSE IF input \in DOMAIN files
      THEN Resolved("none", files[input], FALSE, FALSE, TRUE, FALSE)
      ELSE Resolved("FileError", <<>>, FALSE, FALSE, TRUE, FALSE)

\* ------------------------------------------------------------------------
\* Inputs of the formatter
\* ------------------------------------------------------------------------

\* {"b":1,"a":2}: two keys out of order
DocUnsorted ==
  << "{", "\"", "b", "\"", ":", "1", ",", "\"", "a", "\"", ":", "2", "}" >>

\* [{"b":[],"a":{}}]: an object inside an array, with empty containers as values
DocInArray ==
  << "[", "{", "\"", "b", "\"", ":", "[", "]", ",", "\"", "a", "\"", ":",
     "{", "}", "}", "]" >>

\* {"c":{"b":1,"a":null}}: an object as the value of a key
DocNested ==
  << "{", "\"", "c", "\"", ":", "{", "\"", "b", "\"", ":", "1", ",", "\"",
     "a", "\"", ":", "n", "u", "l", "l", "}", "}" >>

\* {"a":1,"a":2}: a repeated key
DocDuplicate ==
  << "{", "\"", "a", "\"", ":", "1", ",", "\"", "a", "\"", ":", "2", "}" >>

\* {"b":1,"B":2,"aa":3,"a":4}: keys that differ in case and by a prefix
DocByteOrder ==
  << "{", "\"", "b", "\"", ":", "1", ",", "\"", "B", "\"", ":", "2", ",",
     "\"", "a", "a", "\"", ":", "3", ",", "\"", "a", "\"", ":", "4", "}" >>

\* [1.50,-0,1e-7,1e22]: numbers in several notations
DocNumbers ==
  << "[", "1", ".", "5", "0", ",", "-", "0", ",", "1", "e", "-", "7", ",",
     "1", "e", "2", "2", "]" >>

\* [true,false]: the literals
DocLiterals ==
  << "[", "t", "r", "u", "e", ",", "f", "a", "l", "s", "e", "]" >>

\* 1e999: grammatical, beyond float64
DocHuge ==
  << "1", "e", "9", "9", "9" >>

\* {\n "a" : "x:y" ,\n "b" : [ ]\n}\n: a document laid out with white space
DocSpaced ==
  << "{", "\n", " ", "\"", "a", "\"", " ", ":", " ", "\"", "x", ":", "y",
     "\"", " ", ",", "\n", " ", "\"", "b", "\"", " ", ":", " ", "[", " ",
     "]", "\n", "}", "\n" >>

\* "a\"b\n": a string with escapes
DocEscapes ==
  << "\"", "a", "\\", "\"", "b", "\\", "n", "\"" >>

\* "\u00E9<\ud83d" then U+00E9, the byte FF and \f: escapes by number, a
\* lone surrogate, a character that is escaped for HTML, a rune of two
\* bytes and a byte that is not UTF-8
DocUnicode ==
  << "\"", "\\", "u", "0", "0", "E", "9", "<", "\\", "u", "d", "8", "3", "d",
     Byte(195), Byte(169), InvalidByte, "\\", "f", "\"" >>

\* {}: the empty object
DocEmptyObject ==
  << "{", "}" >>

\* []: the empty array
DocEmptyArray ==
  << "[", "]" >>

\* : no bytes at all
DocEmpty ==
  <<>>

Fixtures ==
  {DocUnsorted, DocInArray, DocNested, DocDuplicate,
   DocByteOrder, DocNumbers, DocLiterals, DocHuge,
   DocSpaced, DocEscapes, DocUnicode, DocEmptyObject, DocEmptyArray,
   DocEmpty}

\* The most characters removed from a fixture to make an input.
MaxEdits == 1

\* The widest indentation tried.
MaxIndent == 2

\* s without its k-th character.
DeleteAt(s, k) == SubSeq(s, 1, k - 1) \o Drop(s, k + 1)

\* Every text got from a text of S by removing at most n characters.
RECURSIVE Edits(_, _)
Edits(S, n) ==
  IF n = 0 THEN S
  ELSE LET P == Edits(S, n - 1) IN
         P \cup UNION {{DeleteAt(x, k) : k \in 1..Len(x)} : x \in P}

\* The byte strings given to Format, ValidateJSON and AutoCorrect: the
\* fixtures, valid and not, and what is left of them after the edits.
Inputs == Edits(Fixtures, MaxEdits)

OptionSets == [IndentSpaces : 0..MaxIndent, SortKeys : BOOLEAN]

\* ------------------------------------------------------------------------
\* The environment of one run
\* ------------------------------------------------------------------------

\* http://h/d: an http URL; a file of that name exists
TokURL == <<"h", "t", "t", "p", ":", "/", "/", "h", "/", "d">>

\* https://h/d: an https URL
TokHTTPS == <<"h", "t", "t", "p", "s", ":", "/", "/", "h", "/", "d">>

\* d.json: the name of an existing file
TokFile == <<"d", ".", "j", "s", "o", "n">>

\* x.json: no such file, and not JSON
TokMissing == <<"x", ".", "j", "s", "o", "n">>

\* {"a":1}: literal JSON with a colon
TokLiteral == <<"{", "\"", "a", "\"", ":", "1", "}">>

\* {}: literal JSON without a colon
TokLiteralEmpty == <<"{", "}">>

\* 1: literal JSON that is also a file name
TokLiteralFile == <<"1">>

\* {a: neither a file nor JSON
TokBroken == <<"{", "a">>

\*  d.json: a file name after a blank
TokPadded == <<" ", "d", ".", "j", "s", "o", "n">>

Tokens ==
  {TokURL, TokHTTPS, TokFile, TokMissing, TokLiteral, TokLiteralEmpty,
   TokLiteralFile, TokBroken, TokPadded}

\* {\na:1,\n}: an unquoted key and a trailing comma, one pair per line
DocFixable == <<"{", "\n", "a", ":", "1", ",", "\n", "}">>

\* {"a": not a document, before or after correction
DocBroken == <<"{", "\"", "a", "\"">>

\* The readable files, by name.
Files ==
  (TokFile :> DocFixable) @@ (TokURL :> DocEmptyObject) @@ (TokLiteralFile :> DocUnsorted)

\* What standard input, a file or a response body may hold.
Payloads == {DocUnsorted, DocFixable, DocBroken}

\* fmt.Scanln(&response) at the trust prompt: the word read, and whether it
\* reported an error (an empty line, or more than one word).
Scans ==
  {[response |-> <<"y">>, err |-> FALSE],
   [response |-> <<"Y", "E", "S">>, err |-> FALSE],
   [response |-> <<"n", "o">>, err |-> FALSE],
   [response |-> <<>>, err |-> TRUE],
   [response |-> <<"y", "e", "s">>, err |-> TRUE]}

NoScan == [response |-> <<>>, err |-> FALSE]

\* http.Get(url): a transport error, a status, a body, or a body cut
\* short.  A URL whose scheme is not http or https gets the transport
\* error.
HTTPOutcomes(url) ==
  {[kind |-> "neterr", status |-> 0, body |-> <<>>]}
    \cup (IF IsHTTPURL(LowerStr(url))
          THEN {[kind |-> "resp", status |-> 404, body |-> <<>>],
                [kind |-> "cut", status |-> 200, body |-> <<>>]}
                 \cup {[kind |-> "resp", status |-> 200, body |-> b] : b \in Payloads}
          ELSE {})

\* Standard input: in order with each payload, on a terminal or not;
\* closed; and failing when read.
Stdins ==
  [charDevice : BOOLEAN, data : Payloads, fault : {"none"}]
    \cup {[charDevice |-> FALSE, data |-> <<>>, fault |-> "closed"]}
    \cup [charDevice : BOOLEAN, data : {<<>>}, fault : {"read"}]

\* ------------------------------------------------------------------------
\* The config package
\* ------------------------------------------------------------------------

\* type Config: each field's name, its json tag and its kind, in the order
\* the struct declares them.
ConfigFields ==
  <<[name |-> "IndentSpaces", kind |-> "int",
     tag |-> <<"i", "n", "d", "e", "n", "t", "_", "s", "p", "a", "c", "e", "s">>],
    [name |-> "SortKeys", kind |-> "bool",
     tag |-> <<"s", "o", "r", "t", "_", "k", "e", "y", "s">>],
    [name |-> "SilentMode", kind |-> "bool",
     tag |-> <<"s", "i", "l", "e", "n", "t", "_", "m", "o", "d", "e">>],
    [name |-> "CopyToClipboard", kind |-> "bool",
     tag |-> <<"c", "o", "p", "y", "_", "t", "o", "_", "c", "l", "i", "p", "b", "o", "a", "r", "d">>],
    [name |-> "SaveToDir", kind |-> "bool",
     tag |-> <<"s", "a", "v", "e", "_", "t", "o", "_", "d", "i", "r">>],
    [name |-> "OutputDir", kind |-> "string",
     tag |-> <<"o", "u", "t", "p", "u", "t", "_", "d", "i", "r">>],
    [name |-> "TrustAllURLs", kind |-> "bool",
     tag |-> <<"t", "r", "u", "s", "t", "_", "a", "l", "l", "_", "u", "r", "l", "s">>],
    [name |-> "MaxMemoryMB", kind |-> "int",
     tag |-> <<"m", "a", "x", "_", "m", "e", "m", "o", "r", "y", "_", "m", "b">>],
    [name |-> "MaxProcessors", kind |-> "int",
     tag |-> <<"m", "a", "x", "_", "p", "r", "o", "c", "e", "s", "s", "o", "r", "s">>],
    [name |-> "LogToFile", kind |-> "bool",
     tag |-> <<"l", "o", "g", "_", "t", "o", "_", "f", "i", "l", "e">>],
    [name |-> "LogFilePath", kind |-> "string",
     tag |-> <<"l", "o", "g", "_", "f", "i", "l", "e", "_", "p", "a", "t", "h">>]>>

FieldNames == {ConfigFields[k].name : k \in DOMAIN ConfigFields}

\* The zero Config of `var config Config`.
ZeroConfig ==
  [IndentSpaces |-> 0, SortKeys |-> FALSE, SilentMode |-> FALSE,
   CopyToClipboard |-> FALSE, SaveToDir |-> FALSE, OutputDir |-> <<>>,
   TrustAllURLs |-> FALSE, MaxMemoryMB |-> 0, MaxProcessors |-> 0,
   LogToFile |-> FALSE, LogFilePath |-> <<>>]

\* filepath.Join(homeDir, "fj_output") and filepath.Join(homeDir, ".fj",
\* "fj.log") with homeDir "." when the home directory is unknown.
DefaultOutputDir == <<"f", "j", "_", "o", "u", "t", "p", "u", "t">>

DefaultLogFilePath == <<".", "f", "j", "/", "f", "j", ".", "l", "o", "g">>

\* DefaultConfig()
DefaultConfig ==
  [IndentSpaces |-> 2, SortKeys |-> FALSE, SilentMode |-> FALSE,
   CopyToClipboard |-> FALSE, SaveToDir |-> FALSE,
   OutputDir |-> DefaultOutputDir,
   TrustAllURLs |-> FALSE, MaxMemoryMB |-> 0, MaxProcessors |-> 0,
   LogToFile |-> FALSE, LogFilePath |-> DefaultLogFilePath]

\* strconv for an int of either sign.
IntText(n) == IF n < 0 THEN <<"-">> \o Itoa(0 - n) ELSE Itoa(n)

\* A field encoder that puts a string between quotes as it is.
fieldTextMutant(kind, x) ==
  IF kind = "int" THEN IntText(x)
  ELSE IF kind = "bool" THEN (IF x THEN True4 ELSE False5)
  ELSE <<"\"">> \o x \o <<"\"">>

\* The JSON text of one field's value.
fieldText(kind, x) ==
  IF kind = "int" THEN IntText(x)
  ELSE IF kind = "bool" THEN (IF x THEN True4 ELSE False5)
  ELSE Quote(x)

\* The members of the struct from field k on, one per line.
RECURSIVE encodeFields(_, _, _)
encodeFields(c, k, indent) ==
  Quote(ConfigFields[k].tag) \o <<":", " ">>
    \o fieldText(ConfigFields[k].kind, c[ConfigFields[k].name])
    \o (IF k = Len(ConfigFields) THEN <<>>
        ELSE <<",">> \o NewLine(indent, 1) \o encodeFields(c, k + 1, indent))

\* json.MarshalIndent(config, "", indent): the fields in declaration order
\* under their tags.
marshalConfig(c, indent) ==
  <<"{">> \o NewLine(indent, 1) \o encodeFields(c, 1, indent)
    \o NewLine(indent, 0) \o <<"}">>

\* The largest int read here from a flag or from a config file; a larger
\* one is outside the model.
MaxInt == 999999999

\* The digits d read in a base, '_' skipped when underscores are allowed:
\* the value added to acc, or -1 when a character is not a digit of the
\* base or the value passes MaxInt.
RECURSIVE DigitsValue(_, _, _, _)
DigitsValue(d, base, underscores, acc) ==
  IF Len(d) = 0 THEN acc
  ELSE IF d[1] = "_" /\ underscores THEN DigitsValue(Tail(d), base, underscores, acc)
  ELSE
    LET v == IF IsDigit(d[1]) THEN DigitVal(d[1])
             ELSE IF d[1] \in Letters THEN CharCode(ToLower(d[1])) - 87
             ELSE base
    IN  IF v >= base \/ acc > (MaxInt - v) \div base THEN 0 - 1
        ELSE DigitsValue(Tail(d), base, underscores, acc * base + v)

\* strconv.ParseInt(raw, 10, 64) accepts a number literal as it is
\* written: digits after an optional sign, no fraction and no exponent.
IsInt(raw) == DigitsValue(IF raw[1] = "-" THEN Tail(raw) ELSE raw, 10, FALSE, 0) >= 0

IntOf(raw) ==
  IF raw[1] = "-" THEN 0 - DigitsValue(Tail(raw), 10, FALSE, 0)
  ELSE DigitsValue(raw, 10, FALSE, 0)

\* The index of the field a key names, 0 for none: the field with that
\* tag, else the field whose tag equals the key when case is ignored.
fieldFor(key) ==
  IF \E k \in DOMAIN ConfigFields : ConfigFields[k].tag = key
  THEN CHOOSE k \in DOMAIN ConfigFields : ConfigFields[k].tag = key
  ELSE IF \E k \in DOMAIN ConfigFields : EqualFold(key, ConfigFields[k].tag)
  THEN CHOOSE k \in DOMAIN ConfigFields : EqualFold(key, ConfigFields[k].tag)
  ELSE 0

\* A JSON value x, written raw, stored into a field of a kind: null leaves
\* the field as it is, a value of another type is an UnmarshalTypeError.
fits(kind, x, raw) ==
  \/ x.t = "null"
  \/ kind = "bool" /\ x.t = "bool"
  \/ kind = "string" /\ x.t = "str"
  \/ kind = "int" /\ x.t = "num" /\ IsInt(raw)

stored(kind, x, raw, old) ==
  IF x.t = "null" \/ ~fits(kind, x, raw) THEN old
  ELSE IF kind = "int" THEN IntOf(raw)
  ELSE x.v

\* One member stored into the struct: k the index of its field (0: the
\* member is skipped).  An UnmarshalTypeError is kept and decoding goes on.
fieldOf(acc, k, x, raw) ==
  IF k = 0 THEN acc
  ELSE [err |-> acc.err \/ ~fits(ConfigFields[k].kind, x, raw),
        config |-> [acc.config EXCEPT ![ConfigFields[k].name] =
                      stored(ConfigFields[k].kind, x, raw, @)]]

\* d.object on a struct, for a document known to be valid: the members in
\* the order of the document, a later member for a field replacing what an
\* earlier one stored.  The next key starts at or after s[i].
RECURSIVE decodeMembers(_, _, _)

\* The member whose value, read as r, starts at s[c].
memberStored(s, key, c, r, acc) ==
  LET e == SkipWS(s, r.i)
      next == fieldOf(acc, fieldFor(key), r.v, SubSeq(s, c, r.i - 1))
  IN  IF s[e] = "," THEN decodeMembers(s, e + 1, next) ELSE next

memberAt(s, key, c, acc) == memberStored(s, key, c, ValueAt(s, c), acc)

decodeMembers(s, i, acc) ==
  LET lit == ScanString(s, SkipWS(s, i) + 1, <<>>) IN
    memberAt(s, lit.v, SkipWS(s, SkipWS(s, lit.i) + 1), acc)

\* After '{' and white space, at s[j].
configOf(s, j) ==
  IF s[j] = "}" THEN [err |-> FALSE, config |-> ZeroConfig]
  ELSE decodeMembers(s, j, [err |-> FALSE, config |-> ZeroConfig])

\* json.Unmarshal into a Config of a document the parser read as r: a
\* syntax error, or the fields stored from an object, null storing nothing
\* and any other value being an UnmarshalTypeError.
decodedConfig(data, r) ==
  IF ~r.ok THEN [err |-> TRUE, config |-> ZeroConfig]
  ELSE IF r.v.t = "null" THEN [err |-> FALSE, config |-> ZeroConfig]
  ELSE IF r.v.t # "obj" THEN [err |-> TRUE, config |-> ZeroConfig]
  ELSE configOf(data, SkipWS(data, SkipWS(data, 1) + 1))

\* json.Unmarshal(data, &config)
unmarshalConfig(data) == decodedConfig(data, ParseDocument(data))

\* The config file and what the calls find around it: whether the home
\* directory is known, and whether the file is absent, present, or locked
\* (present, neither readable nor writable).
ConfigFile(home, state, bytes) == [home |-> home, state |-> state, data |-> bytes]

\* What one SaveConfig meets: MkdirAll works or not, and os.WriteFile
\* works, fails to open the file, or fails after truncating it.
SaveOutcomes == [mkdir : BOOLEAN, write : {"ok", "open", "short"}]

\* What one LoadConfig meets: the same, when it saves the default config.
LoadOutcomes(file) ==
  IF file.home /\ file.state = "absent" THEN SaveOutcomes
  ELSE {[mkdir |-> TRUE, write |-> "ok"]}

\* The indent SaveConfig marshals with.
ConfigIndent == <<" ", " ">>

\* SaveConfig(config): its error, and the file afterwards.
SaveConfig(config, file, env) ==
  IF ~file.home THEN [err |-> TRUE, file |-> file]
  ELSE IF ~env.mkdir THEN [err |-> TRUE, file |-> file]
  ELSE IF file.state = "locked" \/ env.write = "open" THEN [err |-> TRUE, file |-> file]
  ELSE IF env.write = "short"
  THEN [err |-> TRUE, file |-> ConfigFile(file.home, "present", <<>>)]
  ELSE [err |-> FALSE,
        file |-> ConfigFile(file.home, "present", marshalConfig(config, ConfigIndent))]

\* LoadConfig after SaveConfig(DefaultConfig()) gave r.
createdDefault(r) == [err |-> r.err, config |-> DefaultConfig, file |-> r.file]

\* LoadConfig after json.Unmarshal gave u.
parsedConfig(u, file) ==
  IF u.err THEN [err |-> TRUE, config |-> DefaultConfig, file |-> file]
  ELSE [err |-> FALSE, config |-> u.config, file |-> file]

\* LoadConfig(): its error, the Config it returns, and the file afterwards.
LoadConfig(file, env) ==
  IF ~file.home THEN [err |-> TRUE, config |-> DefaultConfig, file |-> file]
  ELSE IF file.state = "absent" THEN createdDefault(SaveConfig(DefaultConfig, file, env))
  ELSE IF file.state = "locked"
  THEN [err |-> TRUE, config |-> DefaultConfig, file |-> file]
  ELSE parsedConfig(unmarshalConfig(file.data), file)


\* ------------------------------------------------------------------------
\* Texts given to AutoCorrect
\* ------------------------------------------------------------------------

\* {"name":"John","age":30}: TestAutoCorrect, already valid JSON
DocJohnValid ==
  <<"{", "\"", "n", "a", "m", "e", "\"", ":", "\"", "J", "o", "h", "n",
  "\"", ",", "\"", "a", "g", "e", "\"", ":", "3", "0", "}">>

\* {"name":"John","age":30,}: TestAutoCorrect, trailing comma
DocJohnComma ==
  <<"{", "\"", "n", "a", "m", "e", "\"", ":", "\"", "J", "o", "h", "n",
  "\"", ",", "\"", "a", "g", "e", "\"", ":", "3", "0", ",", "}">>

\* {name:"John","age":30}: TestAutoCorrect, missing quotes around key
DocJohnKey ==
  <<"{", "n", "a", "m", "e", ":", "\"", "J", "o", "h", "n", "\"", ",",
  "\"", "a", "g", "e", "\"", ":", "3", "0", "}">>

\* {name:"John","age:30: TestAutoCorrect, severely malformed JSON
DocJohnSevere ==
  <<"{", "n", "a", "m", "e", ":", "\"", "J", "o", "h", "n", "\"", ",",
  "\"", "a", "g", "e", ":", "3", "0">>

\* {name:"John","age":30,}: an unquoted key and a trailing comma on one line
DocJohnBoth ==
  <<"{", "n", "a", "m", "e", ":", "\"", "J", "o", "h", "n", "\"", ",",
  "\"", "a", "g", "e", "\"", ":", "3", "0", ",", "}">>

\* ["a:"]: valid JSON, a colon inside a string
DocColonInString ==
  <<"[", "\"", "a", ":", "\"", "]">>

\* {"a"(newline):1}: valid JSON, the colon first on its line
DocKeyAlone ==
  <<"{", "\"", "a", "\"", "\n", ":", "1", "}">>

\* {(newline)a":1(newline)}: a key with a quote at one end only
DocOneQuote ==
  <<"{", "\n", "a", "\"", ":", "1", "\n", "}">>

\* valid JSON over several lines, as Format writes it
DocIndented ==
  <<"{", "\n", " ", "\"", "a", "\"", ":", " ", "1", ",", "\n", " ", "\"",
  "b", "\"", ":", " ", "[", "\n", " ", "]", "\n", "}">>

\* [(newline)1,(newline)]: a trailing comma before a closing bracket
DocTrailingBracket ==
  <<"[", "\n", "1", ",", "\n", "]">>

\* an unquoted key with blanks around and inside it
DocSpacedKey ==
  <<"{", "\n", " ", " ", "a", " ", "b", " ", ":", " ", "1", "\n", "}">>

\* {(newline)a:1,,(newline)}: two trailing commas, which two passes would
\* repair
DocTwoCommas == <<"{", "\n", "a", ":", "1", ",", ",", "\n", "}">>

\* The texts repaired one deletion at a time as well.
CorrectFixtures ==
  {DocFixable, DocBroken, DocHuge, DocColonInString, DocKeyAlone, DocOneQuote,
   DocTrailingBracket, DocSpacedKey, DocEmptyObject, DocTwoCommas}

CorrectInputs ==
  Edits(CorrectFixtures, MaxEdits)
    \cup {DocJohnValid, DocJohnComma, DocJohnKey, DocJohnSevere, DocJohnBoth,
          DocIndented, DocUnsorted}

\* ------------------------------------------------------------------------
\* Configs and config files
\* ------------------------------------------------------------------------

\* TestSaveAndLoadConfig's Config.
TestConfig ==
  [IndentSpaces |-> 4, SortKeys |-> TRUE, SilentMode |-> FALSE,
   CopyToClipboard |-> FALSE, SaveToDir |-> FALSE,
   OutputDir |-> <<"/", "t", "e", "s", "t", "/", "o", "u", "t", "p", "u", "t">>,
   TrustAllURLs |-> TRUE, MaxMemoryMB |-> 1024, MaxProcessors |-> 2,
   LogToFile |-> TRUE,
   LogFilePath |-> <<"/", "t", "e", "s", "t", "/", "l", "o", "g", ".", "t", "x", "t">>]

\* Paths: empty, C:\out, a"b, a line break, a name with a byte that is
\* not UTF-8, one with U+FFFD itself, one with a control character, '<'
\* and DEL, one with U+00E9 and U+2028, and one cut inside a rune.
PathEmpty == <<>>

PathBackslash == <<"C", ":", "\\", "o", "u", "t">>

PathQuote == <<"a", "\"", "b">>

PathNewline == <<"a", "\n", "b">>

PathInvalid == <<"a", InvalidByte>>

PathReplacement == <<"a">> \o ReplacementRune

PathControl == <<Byte(1), "<", Byte(127), Byte(8)>>

PathRunes == <<Byte(195), Byte(169), Byte(226), Byte(128), Byte(168)>>

PathCut == <<"a", Byte(226), Byte(128)>>

Paths ==
  {PathEmpty, PathBackslash, PathQuote, PathNewline, PathInvalid, PathReplacement,
   PathControl, PathRunes, PathCut}

\* The ints tried in a Config field.
ConfigInts == {0 - 1, 0, 7, 1024}

\* TestConfig with one field changed, for every field.
Configs ==
  {TestConfig, DefaultConfig, ZeroConfig}
    \cup {[TestConfig EXCEPT ![n] = ~TestConfig[n]] :
            n \in {"SortKeys", "SilentMode", "CopyToClipboard", "SaveToDir",
                   "TrustAllURLs", "LogToFile"}}
    \cup {[TestConfig EXCEPT ![n] = x] :
            n \in {"IndentSpaces", "MaxMemoryMB", "MaxProcessors"}, x \in ConfigInts}
    \cup {[TestConfig EXCEPT ![n] = x] : n \in {"OutputDir", "LogFilePath"}, x \in Paths}

\* {"INDENT_SPACES": 8, "sort_keys": null, "x": 1}: a key in another case, a
\* null and an unknown key
FilePartial ==
  <<"{", "\"", "I", "N", "D", "E", "N", "T", "_", "S", "P", "A", "C", "E", "S", "\"", ":", " ", "8", ",", " ", "\"", "s", "o", "r", "t", "_", "k", "e", "y", "s", "\"", ":", " ", "n", "u", "l", "l", ",", " ", "\"", "x", "\"", ":", " ", "1", "}">>

\* {"sort_keys": 1}: a value of the wrong type
FileMistyped == <<"{", "\"", "s", "o", "r", "t", "_", "k", "e", "y", "s", "\"", ":", " ", "1", "}">>

\* {"indent_spaces": 2.0}: a whole number written with a fraction
FileFraction ==
  <<"{", "\"", "i", "n", "d", "e", "n", "t", "_", "s", "p", "a", "c", "e", "s", "\"", ":", " ", "2", ".", "0", "}">>

\* {"max_memory_mb":1e2}: a whole number written with an exponent
FileExponent ==
  <<"{", "\"", "m", "a", "x", "_", "m", "e", "m", "o", "r", "y", "_", "m", "b", "\"", ":", "1", "e", "2", "}">>

\* {"indent_spaces":4,"Indent_Spaces":-6,"indent_spaces":null,"x":1e999,
\* "output_dir":"\u00e9\ud83d\ude00\b"}: a field given three times, a
\* number out of range under an unknown key, and escapes
FileRepeated ==
  <<"{", "\"", "i", "n", "d", "e", "n", "t", "_", "s", "p", "a", "c", "e", "s", "\"", ":", "4", ",",
    "\"", "I", "n", "d", "e", "n", "t", "_", "S", "p", "a", "c", "e", "s", "\"", ":", "-", "6", ",",
    "\"", "i", "n", "d", "e", "n", "t", "_", "s", "p", "a", "c", "e", "s", "\"", ":", "n", "u", "l", "l", ",",
    "\"", "x", "\"", ":", "1", "e", "9", "9", "9", ",",
    "\"", "o", "u", "t", "p", "u", "t", "_", "d", "i", "r", "\"", ":", "\"",
    "\\", "u", "0", "0", "e", "9", "\\", "u", "d", "8", "3", "d", "\\", "u", "d", "e", "0", "0",
    "\\", "b", "\"", "}">>

\* {: not JSON
FileGarbage == <<"{">>

\* The config files a run may start with.
ConfigFiles ==
  {ConfigFile(h, "absent", <<>>) : h \in BOOLEAN}
    \cup {ConfigFile(TRUE, "locked", FileGarbage)}
    \cup {ConfigFile(TRUE, "present", d) :
            d \in {FilePartial, FileMistyped, FileFraction, FileExponent,
                   FileRepeated, FileGarbage}}

\* ------------------------------------------------------------------------
\* The command line: package flag
\* ------------------------------------------------------------------------

\* The two revisions of the driver: cmd/fj/main.go, and the later one
\* whose getInput takes literal JSON.
Revisions == {"cmd/fj", "literal"}

\* The flags parseFlags defines, in its order: the name, the kind of
\* value, the field of the result it sets, and the revisions that define
\* it.
FlagDefs ==
  <<[name |-> <<"i", "n", "d", "e", "n", "t">>,
     kind |-> "int", field |-> "IndentSpaces", revs |-> Revisions],
    [name |-> <<"s", "o", "r", "t">>,
     kind |-> "bool", field |-> "SortKeys", revs |-> Revisions],
    [name |-> <<"s", "i", "l", "e", "n", "t">>,
     kind |-> "bool", field |-> "SilentMode", revs |-> {"literal"}],
    [name |-> <<"c", "l", "i", "p", "b", "o", "a", "r", "d">>,
     kind |-> "bool", field |-> "CopyToClipboard", revs |-> Revisions],
    [name |-> <<"s", "a", "v", "e", "-", "t", "o", "-", "d", "i", "r">>,
     kind |-> "bool", field |-> "SaveToDir", revs |-> {"literal"}],
    [name |-> <<"o", "u", "t", "d", "i", "r">>,
     kind |-> "string", field |-> "OutputDir", revs |-> Revisions],
    [name |-> <<"t", "r", "u", "s", "t", "-", "a", "l", "l">>,
     kind |-> "bool", field |-> "TrustAllURLs", revs |-> Revisions],
    [name |-> <<"v", "e", "r", "s", "i", "o", "n">>,
     kind |-> "bool", field |-> "version", revs |-> Revisions],
    [name |-> <<"h", "e", "l", "p">>,
     kind |-> "bool", field |-> "help", revs |-> Revisions],
    [name |-> <<"s", "a", "v", "e", "-", "c", "o", "n", "f", "i", "g">>,
     kind |-> "bool", field |-> "saveConfig", revs |-> Revisions]>>

\* The values of the flags before flag.Parse: the loaded configuration,
\* and false.
flagDefaults(defaultCfg) ==
  [IndentSpaces |-> defaultCfg.IndentSpaces, SortKeys |-> defaultCfg.SortKeys,
   SilentMode |-> defaultCfg.SilentMode,
   CopyToClipboard |-> defaultCfg.CopyToClipboard,
   SaveToDir |-> defaultCfg.SaveToDir, OutputDir |-> defaultCfg.OutputDir,
   TrustAllURLs |-> defaultCfg.TrustAllURLs,
   version |-> FALSE, help |-> FALSE, saveConfig |-> FALSE]

\* The index in FlagDefs of the flag a revision defines under a name, or 0.
flagFor(r, name) ==
  IF \E k \in DOMAIN FlagDefs : FlagDefs[k].name = name /\ r \in FlagDefs[k].revs
  THEN CHOOSE k \in DOMAIN FlagDefs : FlagDefs[k].name = name /\ r \in FlagDefs[k].revs
  ELSE 0

\* strconv.ParseBool
ParseBool(str) ==
  IF str \in {<<"1">>, <<"t">>, <<"T">>, <<"T", "R", "U", "E">>, <<"t", "r", "u", "e">>,
              <<"T", "r", "u", "e">>}
  THEN [ok |-> TRUE, v |-> TRUE]
  ELSE IF str \in {<<"0">>, <<"f">>, <<"F">>, <<"F", "A", "L", "S", "E">>,
                   <<"f", "a", "l", "s", "e">>, <<"F", "a", "l", "s", "e">>}
  THEN [ok |-> TRUE, v |-> FALSE]
  ELSE [ok |-> FALSE, v |-> FALSE]

\* strconv.ParseInt(str, 0, 64), as flag.Int calls it: a sign, a base
\* prefix (0b, 0o, 0x, or 0 for octal), digits of the base, and
\* underscores only between digits or after the prefix.
ParseInt(str) ==
  LET u == IF Len(str) > 0 /\ str[1] \in {"+", "-"} THEN Tail(str) ELSE str
      prefixed == Len(u) >= 3 /\ u[1] = "0" /\ ToLower(u[2]) \in {"b", "o", "x"}
      base == IF Len(u) = 0 \/ u[1] # "0" THEN 10
              ELSE IF ~prefixed THEN 8
              ELSE IF ToLower(u[2]) = "b" THEN 2
              ELSE IF ToLower(u[2]) = "o" THEN 8
              ELSE 16
      body == IF base = 10 THEN u ELSE IF prefixed THEN Drop(u, 3) ELSE Tail(u)
      t == IF prefixed THEN body ELSE u
      n == DigitsValue(body, base, TRUE, 0)
      underscoreOK ==
        \A k \in 1..Len(t) :
          t[k] = "_" => /\ k < Len(t)
                        /\ IF k = 1 THEN prefixed ELSE t[k - 1] # "_"
  IN  IF Len(u) = 0 \/ n < 0 \/ ~underscoreOK THEN [ok |-> FALSE, v |-> 0]
      ELSE [ok |-> TRUE, v |-> IF str[1] = "-" THEN 0 - n ELSE n]

\* What flag.Parse leaves: exit is -1, or the status it ended the process
\* with; vals the values of the flags; args the arguments left.
Parsed(exit, vals, args) == [exit |-> exit, vals |-> vals, args |-> args]

RECURSIVE flagParse(_, _, _)

\* The flag FlagDefs[k] met with a value after '=' or without: a bool flag
\* takes only such a value, any other flag takes the next argument.
flagSet(r, vals, k, hasValue, value, rest) ==
  IF FlagDefs[k].kind = "bool" THEN
    LET b == IF hasValue THEN ParseBool(value) ELSE [ok |-> TRUE, v |-> TRUE] IN
      IF ~b.ok THEN Parsed(2, vals, rest)
      ELSE flagParse(r, [vals EXCEPT ![FlagDefs[k].field] = b.v], rest)
  ELSE IF ~hasValue /\ Len(rest) = 0 THEN Parsed(2, vals, rest)
  ELSE
    LET given == IF hasValue THEN value ELSE rest[1]
        after == IF hasValue THEN rest ELSE Tail(rest)
    IN  IF FlagDefs[k].kind = "string"
        THEN flagParse(r, [vals EXCEPT ![FlagDefs[k].field] = given], after)
        ELSE IF ~ParseInt(given).ok THEN Parsed(2, vals, after)
        ELSE flagParse(r, [vals EXCEPT ![FlagDefs[k].field] = ParseInt(given).v], after)

\* The text after the dashes of a flag, eq the place of its '=' (0: none).
flagNamed(r, vals, text, eq, rest) ==
  LET name == IF eq = 0 THEN text ELSE SubSeq(text, 1, eq - 1)
      k == flagFor(r, name)
  IN  IF k = 0 THEN Parsed(IF name = <<"h">> THEN 0 ELSE 2, vals, rest)
      ELSE flagSet(r, vals, k, eq # 0, Drop(text, eq + 1), rest)

\* flag.Parse() under ExitOnError: flags up to the first argument that is
\* not one, or up to "--"; -h without such a flag ends the process with
\* status 0, any other error with status 2.
flagParse(r, vals, argv) ==
  IF Len(argv) = 0 THEN Parsed(0 - 1, vals, argv)
  ELSE IF Len(argv[1]) < 2 \/ argv[1][1] # "-" THEN Parsed(0 - 1, vals, argv)
  ELSE IF argv[1] = <<"-", "-">> THEN Parsed(0 - 1, vals, Tail(argv))
  ELSE
    LET text == Drop(argv[1], IF argv[1][2] = "-" THEN 3 ELSE 2) IN
      IF text[1] \in {"-", "="} THEN Parsed(2, vals, argv)
      ELSE flagNamed(r, vals, text, IndexFrom(text, <<"=">>, 2), Tail(argv))

\* The Config parseFlags makes of the flags; the cmd/fj revision sets
\* neither SilentMode nor SaveToDir.
flagConfig(r, vals, defaultCfg) ==
  [IndentSpaces |-> vals.IndentSpaces, SortKeys |-> vals.SortKeys,
   SilentMode |-> r = "literal" /\ vals.SilentMode,
   CopyToClipboard |-> vals.CopyToClipboard,
   SaveToDir |-> r = "literal" /\ vals.SaveToDir,
   OutputDir |-> vals.OutputDir, TrustAllURLs |-> vals.TrustAllURLs,
   MaxMemoryMB |-> defaultCfg.MaxMemoryMB,
   MaxProcessors |-> defaultCfg.MaxProcessors,
   LogToFile |-> defaultCfg.LogToFile, LogFilePath |-> defaultCfg.LogFilePath]

\* parseFlags(defaultCfg) after flag.Parse gave p: the status it ends the
\* process with (-1: it returns), the Config it returns, flag.Args(), and
\* the config file and SaveConfig's error when -save-config is given.
parseFlags(r, defaultCfg, p, file, env) ==
  IF p.exit >= 0 \/ p.vals.version \/ p.vals.help
  THEN [exit |-> IF p.exit >= 0 THEN p.exit ELSE 0, config |-> defaultCfg,
        args |-> p.args, file |-> file, saveErr |-> FALSE]
  ELSE IF p.vals.saveConfig
  THEN [exit |-> 0 - 1, config |-> flagConfig(r, p.vals, defaultCfg), args |-> p.args,
        file |-> SaveConfig(flagConfig(r, p.vals, defaultCfg), file, env).file,
        saveErr |-> SaveConfig(flagConfig(r, p.vals, defaultCfg), file, env).err]
  ELSE [exit |-> 0 - 1, config |-> flagConfig(r, p.vals, defaultCfg), args |-> p.args,
        file |-> file, saveErr |-> FALSE]

\* ------------------------------------------------------------------------
\* Command lines and config files of a run
\* ------------------------------------------------------------------------

\* no flag
LinePlain == <<>>

\* -indent 0 -sort
LineCompact == <<<<"-", "i", "n", "d", "e", "n", "t">>, <<"0">>, <<"-", "s", "o", "r", "t">>>>

\* -indent=-1
LineNegative == <<<<"-", "i", "n", "d", "e", "n", "t", "=", "-", "1">>>>

\* --trust-all
LineTrust == <<<<"-", "-", "t", "r", "u", "s", "t", "-", "a", "l", "l">>>>

\* -clipboard -outdir out
LineSinks == <<<<"-", "c", "l", "i", "p", "b", "o", "a", "r", "d">>, <<"-", "o", "u", "t", "d", "i", "r">>, <<"o", "u", "t">>>>

\* -clipboard=false -outdir=
LineNoSinks == <<<<"-", "c", "l", "i", "p", "b", "o", "a", "r", "d", "=", "f", "a", "l", "s", "e">>, <<"-", "o", "u", "t", "d", "i", "r", "=">>>>

\* -version
LineVersion == <<<<"-", "v", "e", "r", "s", "i", "o", "n">>>>

\* -help
LineHelp == <<<<"-", "h", "e", "l", "p">>>>

\* -version -bogus: the error comes first
LineBogus == <<<<"-", "v", "e", "r", "s", "i", "o", "n">>, <<"-", "b", "o", "g", "u", "s">>>>

\* -h, which no revision defines
LineUsage == <<<<"-", "h">>>>

\* -sort=maybe
LineBadBool == <<<<"-", "s", "o", "r", "t", "=", "m", "a", "y", "b", "e">>>>

\* -indent as the last flag: the next argument is its value
LineNoValue == <<<<"-", "i", "n", "d", "e", "n", "t">>>>

\* -save-config -indent 0x4 -sort=T
LineSave == <<<<"-", "s", "a", "v", "e", "-", "c", "o", "n", "f", "i", "g">>, <<"-", "i", "n", "d", "e", "n", "t">>, <<"0", "x", "4">>, <<"-", "s", "o", "r", "t", "=", "T">>>>

\* -silent, which cmd/fj does not define
LineSilent == <<<<"-", "s", "i", "l", "e", "n", "t">>>>

\* -indent 0_1 --
LineUnderscore == <<<<"-", "i", "n", "d", "e", "n", "t">>, <<"0", "_", "1">>, <<"-", "-">>>>

\* -indent 1_
LineBadInt == <<<<"-", "i", "n", "d", "e", "n", "t">>, <<"1", "_">>>>

\* The flags a run is started with; the token, if any, comes after them.
FlagLines ==
  {LinePlain, LineCompact, LineNegative, LineTrust,
   LineSinks, LineNoSinks, LineVersion, LineHelp,
   LineUsage, LineBadBool, LineNoValue, LineSave,
   LineSilent, LineUnderscore, LineBadInt, LineBogus}

\* {"indent_spaces":-1,"sort_keys":true,"copy_to_clipboard":true,
\* "trust_all_urls":true,"output_dir":""}: a config file that changes what
\* a run without flags does
FileDriver ==
  <<"{", "\"", "i", "n", "d", "e", "n", "t", "_", "s", "p", "a", "c", "e",
    "s", "\"", ":", "-", "1", ",", "\"", "s", "o", "r", "t", "_", "k",
    "e", "y", "s", "\"", ":", "t", "r", "u", "e", ",", "\"", "c", "o",
    "p", "y", "_", "t", "o", "_", "c", "l", "i", "p", "b", "o", "a", "r",
    "d", "\"", ":", "t", "r", "u", "e", ",", "\"", "t", "r", "u", "s",
    "t", "_", "a", "l", "l", "_", "u", "r", "l", "s", "\"", ":", "t",
    "r", "u", "e", ",", "\"", "o", "u", "t", "p", "u", "t", "_", "d",
    "i", "r", "\"", ":", "\"", "\"", "}">>

\* The config files a run of the driver may start with.
DriverConfigFiles ==
  {ConfigFile(h, "absent", <<>>) : h \in BOOLEAN}
    \cup {ConfigFile(TRUE, "locked", FileGarbage)}
    \cup {ConfigFile(TRUE, "present", d) : d \in {FileDriver, FileMistyped}}

\* ------------------------------------------------------------------------
\* State
\* ------------------------------------------------------------------------

VARIABLES
  rev,            \* which revision of the driver runs
  argv,           \* os.Args[1:]: the command line
  args,           \* flag.Args(): the positional arguments
  cmdConfig,      \* the configuration parseFlags returned
  stdin,          \* standard input: a character device or not, its bytes,
                  \* and whether it is closed or fails when read
  pc,             \* the position of main
  resolved,       \* what getInput did and returned
  scanned,        \* the answer read at the trust prompt, if it was shown
  inputData,      \* main's inputData
  correctedJSON,  \* main's correctedJSON
  formattedJSON,  \* main's formattedJSON
  calls,          \* the formatter calls made so far: function, argument, result
  clipboard,      \* the clipboard sink: "skipped", "copied" or "failed"
  saved,          \* the file sink: "skipped", "saved" or "failed"
  exitCode,       \* the exit status; -1 while running
  data,           \* formatter harness: the input bytes
  opts,           \* formatter harness: the options
  out,            \* formatter harness: Format(data, opts)
  valid,          \* formatter harness: ValidateJSON(data)
  out2,           \* formatter harness: Format(out.bytes, opts)
  stage,          \* formatter harness: which of these have been computed
  text,           \* corrector harness: the bytes given to AutoCorrect
  copts,          \* corrector harness: the options of the retried Format
  fixed,          \* corrector harness: AutoCorrect's lines after the key loop
  corrected,      \* corrector harness: AutoCorrect(text)
  checked,        \* corrector harness: ValidateJSON of the returned bytes
  retried,        \* corrector harness: Format of the returned bytes
  cstage,         \* corrector harness: which of these have been computed
  cfg,            \* config harness: the Config given to SaveConfig
  configFile,     \* the config file, if it exists
  saveErr,        \* whether SaveConfig returned an error
  loaded,         \* what LoadConfig returned
  kstage          \* config harness: which of these have been computed

driverVars ==
  <<rev, argv, args, cmdConfig, stdin, pc, resolved, scanned, inputData,
    correctedJSON, formattedJSON, calls, clipboard, saved, exitCode>>

harnessVars == <<data, opts, out, valid, out2, stage>>

correctorVars == <<text, copts, fixed, corrected, checked, retried, cstage>>

configVars == <<cfg, configFile, saveErr, loaded, kstage>>

vars == <<driverVars, harnessVars, correctorVars, configVars>>

NoResult == [kind |-> "none", bytes |-> <<>>]

NotResolved == Resolved("pending", <<>>, FALSE, FALSE, FALSE, FALSE)

HarnessOff ==
  /\ data = <<>>
  /\ opts = [IndentSpaces |-> 0, SortKeys |-> FALSE]
  /\ out = NoResult
  /\ valid = [valid |-> FALSE, err |-> FALSE]
  /\ out2 = NoResult
  /\ stage = "off"

NoCorrection == [err |-> FALSE, bytes |-> <<>>]

NoValidity == [valid |-> FALSE, err |-> FALSE]

CorrectorOff ==
  /\ text = <<>>
  /\ copts = [IndentSpaces |-> 0, SortKeys |-> FALSE]
  /\ fixed = <<>>
  /\ corrected = NoCorrection
  /\ checked = NoValidity
  /\ retried = NoResult
  /\ cstage = "off"

NotLoaded == [err |-> FALSE, config |-> ZeroConfig]

ConfigOff ==
  /\ cfg = ZeroConfig
  /\ configFile = ConfigFile(TRUE, "absent", <<>>)
  /\ saveErr = FALSE
  /\ loaded = NotLoaded
  /\ kstage = "off"

DriverOff ==
  /\ rev = "cmd/fj"
  /\ argv = <<>>
  /\ args = <<>>
  /\ cmdConfig = ZeroConfig
  /\ stdin = [charDevice |-> TRUE, data |-> <<>>, fault |-> "none"]
  /\ pc = "off"
  /\ resolved = NotResolved
  /\ scanned = NoScan
  /\ inputData = <<>>
  /\ correctedJSON = <<>>
  /\ formattedJSON = <<>>
  /\ calls = <<>>
  /\ clipboard = "skipped"
  /\ saved = "skipped"
  /\ exitCode = 0 - 1

\* ------------------------------------------------------------------------
\* The driver: main
\* ------------------------------------------------------------------------

\* Standard input of the runs that are given a token.
StdinPlain == [charDevice |-> TRUE, data |-> DocUnsorted, fault |-> "none"]

\* The state as main starts: a command line of flags and at most one
\* token, a config file, and standard input.
Init ==
  /\ rev \in Revisions
  /\ \E line \in FlagLines, tok \in {<<>>} \cup {<<t>> : t \in Tokens} :
       /\ argv = line \o tok
       /\ stdin \in (IF tok = <<>> THEN Stdins ELSE {StdinPlain})
  /\ configFile \in DriverConfigFiles
  /\ args = <<>>
  /\ cmdConfig = ZeroConfig
  /\ pc = "load"
  /\ resolved = NotResolved
  /\ scanned = NoScan
  /\ inputData = <<>>
  /\ correctedJSON = <<>>
  /\ formattedJSON = <<>>
  /\ calls = <<>>
  /\ clipboard = "skipped"
  /\ saved = "skipped"
  /\ exitCode = 0 - 1
  /\ cfg = ZeroConfig
  /\ saveErr = FALSE
  /\ loaded = NotLoaded
  /\ kstage = "off"
  /\ HarnessOff
  /\ CorrectorOff

\* cfg, err := config.LoadConfig(); the default configuration on an error.
\* A config file that is absent is written.
LoadCfg ==
  /\ pc = "load"
  /\ \E env \in LoadOutcomes(configFile) :
       \E r \in {LoadConfig(configFile, env)} :
         /\ loaded' = [err |-> r.err,
                       config |-> IF r.err THEN DefaultConfig ELSE r.config]
         /\ configFile' = r.file
  /\ pc' = "flags"
  /\ UNCHANGED <<rev, argv, args, cmdConfig, stdin, resolved, scanned, inputData,
                 correctedJSON, formattedJSON, calls, clipboard, saved, exitCode,
                 cfg, saveErr, kstage, harnessVars, correctorVars>>

\* cmdConfig := parseFlags(cfg): the process ends with status 2 on a bad
\* command line and with status 0 on -h, -version and -help; -save-config
\* writes the config file, and a failure to write is only reported.
ParseFlags ==
  /\ pc = "flags"
  /\ \E p \in {flagParse(rev, flagDefaults(loaded.config), argv)} :
       \E env \in (IF p.exit < 0 /\ p.vals.saveConfig THEN SaveOutcomes
                   ELSE {[mkdir |-> TRUE, write |-> "ok"]}) :
         \E r \in {parseFlags(rev, loaded.config, p, configFile, env)} :
           /\ cmdConfig' = r.config
           /\ args' = r.args
           /\ configFile' = r.file
           /\ saveErr' = r.saveErr
           /\ pc' = IF r.exit < 0 THEN "input" ELSE "done"
           /\ exitCode' = r.exit
  /\ UNCHANGED <<rev, argv, stdin, resolved, scanned, inputData, correctedJSON,
                 formattedJSON, calls, clipboard, saved, cfg, loaded, kstage,
                 harnessVars, correctorVars>>

\* main's formatter.Options
Options == [IndentSpaces |-> cmdConfig.IndentSpaces, SortKeys |-> cmdConfig.SortKeys]

Call(fn, arg, res) == [fn |-> fn, arg |-> arg, res |-> res]

\* inputData, err := getInput(cmdConfig.TrustAllURLs); exit 1 on an error.
GetInput ==
  /\ pc = "input"
  /\ \E scan \in Scans :
       \E http \in HTTPOutcomes(IF Len(args) = 0 THEN <<>> ELSE TrimSpace(args[1])) :
         LET r == IF rev = "literal"
                  THEN getInput(args, cmdConfig.TrustAllURLs, stdin, Files, scan, http)
                  ELSE getInputCmd(args, cmdConfig.TrustAllURLs, stdin, Files, scan, http)
         IN  /\ resolved' = r
             /\ scanned' = IF r.prompted THEN scan ELSE NoScan
             /\ inputData' = r.data
             /\ pc' = IF r.err = "none" THEN "format" ELSE "done"
             /\ exitCode' = IF r.err = "none" THEN exitCode ELSE 1
  /\ UNCHANGED <<rev, argv, args, cmdConfig, stdin, correctedJSON, formattedJSON,
                 calls, clipboard, saved, harnessVars, correctorVars, configVars>>

\* formattedJSON, err := formatter.Format(inputData, opts)
FormatInput ==
  /\ pc = "format"
  /\ LET r == Format(inputData, Options) IN
       /\ calls' = Append(calls, Call("Format", inputData, r.kind))
       /\ formattedJSON' = r.bytes
       /\ pc' = IF r.kind = "ok" THEN "output"
                ELSE IF r.kind = "err" THEN "correct" ELSE "done"
       /\ exitCode' = IF r.kind = "panic" THEN 2 ELSE exitCode
  /\ UNCHANGED <<rev, argv, args, cmdConfig, stdin, resolved, scanned, inputData,
                 correctedJSON, clipboard, saved, harnessVars, correctorVars, configVars>>

\* A driver that formats again even though the correction failed.
CorrectMutant ==
  /\ pc = "correct"
  /\ LET c == AutoCorrect(inputData) IN
       /\ calls' = Append(calls, Call("AutoCorrect", inputData, IF c.err THEN "err" ELSE "ok"))
       /\ correctedJSON' = IF c.err THEN inputData ELSE c.bytes
       /\ pc' = "reformat"
       /\ exitCode' = exitCode
  /\ UNCHANGED <<rev, argv, args, cmdConfig, stdin, resolved, scanned, inputData,
                 formattedJSON, clipboard, saved, harnessVars, correctorVars, configVars>>

\* correctedJSON, corrErr := formatter.AutoCorrect(inputData); exit 1 on
\* an error.
Correct ==
  /\ pc = "correct"
  /\ LET c == AutoCorrect(inputData) IN
       /\ calls' = Append(calls, Call("AutoCorrect", inputData, IF c.err THEN "err" ELSE "ok"))
       /\ correctedJSON' = c.bytes
       /\ pc' = IF c.err THEN "done" ELSE "reformat"
       /\ exitCode' = IF c.err THEN 1 ELSE exitCode
  /\ UNCHANGED <<rev, argv, args, cmdConfig, stdin, resolved, scanned, inputData,
                 formattedJSON, clipboard, saved, harnessVars, correctorVars, configVars>>

\* formattedJSON, err = formatter.Format(correctedJSON, opts); exit 1 on
\* an error.
FormatCorrected ==
  /\ pc = "reformat"
  /\ LET r == Format(correctedJSON, Options) IN
       /\ calls' = Append(calls, Call("Format", correctedJSON, r.kind))
       /\ formattedJSON' = r.bytes
       /\ pc' = IF r.kind = "ok" THEN "output" ELSE "done"
       /\ exitCode' = IF r.kind = "ok" THEN exitCode
                      ELSE IF r.kind = "err" THEN 1 ELSE 2
  /\ UNCHANGED <<rev, argv, args, cmdConfig, stdin, resolved, scanned, inputData,
                 correctedJSON, clipboard, saved, harnessVars, correctorVars, configVars>>

\* A driver that exits with 1 when the clipboard sink fails.
OutputMutant ==
  /\ pc = "output"
  /\ \E copyOK \in BOOLEAN, saveOK \in BOOLEAN :
       /\ clipboard' = IF ~cmdConfig.CopyToClipboard THEN "skipped"
                       ELSE IF copyOK THEN "copied" ELSE "failed"
       /\ saved' = IF cmdConfig.OutputDir = <<>> \/ (cmdConfig.CopyToClipboard /\ ~copyOK)
                   THEN "skipped"
                   ELSE IF saveOK THEN "saved" ELSE "failed"
       /\ exitCode' = IF cmdConfig.CopyToClipboard /\ ~copyOK THEN 1 ELSE 0
  /\ pc' = "done"
  /\ UNCHANGED <<rev, argv, args, cmdConfig, stdin, resolved, scanned, inputData,
                 correctedJSON, formattedJSON, calls, harnessVars, correctorVars,
                 configVars>>

\* Print, then the clipboard sink and the file sink, each only reported
\* when it fails; main returns.
Output ==
  /\ pc = "output"
  /\ \E copyOK \in BOOLEAN, saveOK \in BOOLEAN :
       /\ clipboard' = IF ~cmdConfig.CopyToClipboard THEN "skipped"
                       ELSE IF copyOK THEN "copied" ELSE "failed"
       /\ saved' = IF cmdConfig.OutputDir = <<>> THEN "skipped"
                   ELSE IF saveOK THEN "saved" ELSE "failed"
  /\ pc' = "done"
  /\ exitCode' = 0
  /\ UNCHANGED <<rev, argv, args, cmdConfig, stdin, resolved, scanned, inputData,
                 correctedJSON, formattedJSON, calls, harnessVars, correctorVars, configVars>>

Next ==
  LoadCfg \/ ParseFlags \/ GetInput \/ FormatInput \/ Correct \/ FormatCorrected \/ Output

Spec == Init /\ [][Next]_vars

\* ------------------------------------------------------------------------
\* The formatter package on its own
\* ------------------------------------------------------------------------

FormatInit ==
  /\ data \in Inputs
  /\ opts \in OptionSets
  /\ out = NoResult
  /\ valid = [valid |-> FALSE, err |-> FALSE]
  /\ out2 = NoResult
  /\ stage = "input"
  /\ DriverOff
  /\ CorrectorOff
  /\ ConfigOff

\* out := Format(data, opts)
RunFormat ==
  /\ stage = "input"
  /\ out' = Format(data, opts)
  /\ stage' = "formatted"
  /\ UNCHANGED <<data, opts, valid, out2, driverVars, correctorVars, configVars>>

\* valid := ValidateJSON(data)
RunValidate ==
  /\ stage = "formatted"
  /\ valid' = ValidateJSON(data)
  /\ stage' = "validated"
  /\ UNCHANGED <<data, opts, out, out2, driverVars, correctorVars, configVars>>

\* out2 := Format(out, opts); when Format returned an error, out is the nil
\* slice it returned with it.
RunReformat ==
  /\ stage = "validated"
  /\ out2' = Format(out.bytes, opts)
  /\ stage' = "reformatted"
  /\ UNCHANGED <<data, opts, out, valid, driverVars, correctorVars, configVars>>

FormatNext == RunFormat \/ RunValidate \/ RunReformat

FormatSpec == FormatInit /\ [][FormatNext]_vars

\* ------------------------------------------------------------------------
\* AutoCorrect on its own, as TestAutoCorrect calls it
\* ------------------------------------------------------------------------

CorrectInit ==
  /\ text \in CorrectInputs
  /\ copts \in OptionSets
  /\ fixed = <<>>
  /\ corrected = NoCorrection
  /\ checked = NoValidity
  /\ retried = NoResult
  /\ cstage = "input"
  /\ DriverOff
  /\ HarnessOff
  /\ ConfigOff

\* corrected := AutoCorrect(text); fixed is `lines` when the loop ends.
RunAutoCorrect ==
  /\ cstage = "input"
  /\ fixed' = fixLines(Split(text, "\n"))
  /\ corrected' = AutoCorrect(text)
  /\ cstage' = "corrected"
  /\ UNCHANGED <<text, copts, checked, retried, driverVars, harnessVars, configVars>>

\* json.Unmarshal(got, &js), once AutoCorrect has returned bytes
RunCheck ==
  /\ cstage = "corrected"
  /\ ~corrected.err
  /\ checked' = ValidateJSON(corrected.bytes)
  /\ cstage' = "checked"
  /\ UNCHANGED <<text, copts, fixed, corrected, retried, driverVars, harnessVars,
                 configVars>>

\* Format(correctedJSON, opts), as main retries it
RunRetry ==
  /\ cstage = "checked"
  /\ retried' = Format(corrected.bytes, copts)
  /\ cstage' = "retried"
  /\ UNCHANGED <<text, copts, fixed, corrected, checked, driverVars, harnessVars,
                 configVars>>

CorrectNext == RunAutoCorrect \/ RunCheck \/ RunRetry

CorrectSpec == CorrectInit /\ [][CorrectNext]_vars

\* ------------------------------------------------------------------------
\* The config package on its own, as TestSaveAndLoadConfig calls it
\* ------------------------------------------------------------------------

ConfigInit ==
  /\ cfg \in Configs
  /\ configFile \in ConfigFiles
  /\ saveErr = FALSE
  /\ loaded = NotLoaded
  /\ kstage = "input"
  /\ DriverOff
  /\ HarnessOff
  /\ CorrectorOff

\* saveErr := SaveConfig(cfg)
RunSaveConfig ==
  /\ kstage = "input"
  /\ \E env \in SaveOutcomes :
       \E r \in {SaveConfig(cfg, configFile, env)} :
         /\ saveErr' = r.err
         /\ configFile' = r.file
  /\ kstage' = "saved"
  /\ UNCHANGED <<cfg, loaded, driverVars, harnessVars, correctorVars>>

\* loaded := LoadConfig()
RunLoadConfig ==
  /\ kstage = "saved"
  /\ \E env \in LoadOutcomes(configFile) :
       \E r \in {LoadConfig(configFile, env)} :
         /\ loaded' = [err |-> r.err, config |-> r.config]
         /\ configFile' = r.file
  /\ kstage' = "loaded"
  /\ UNCHANGED <<cfg, saveErr, driverVars, harnessVars, correctorVars>>

ConfigNext == RunSaveConfig \/ RunLoadConfig

ConfigSpec == ConfigInit /\ [][ConfigNext]_vars

\* ------------------------------------------------------------------------
\* Properties of the driver
\* ------------------------------------------------------------------------

\* The token main was given, as typed.
Token == args[1]

\* getInput has returned.
InputTaken == resolved # NotResolved

\* C1: in every run Format is called first, on the resolved bytes;
\* AutoCorrect is called only after that Format returned an error, on the
\* same bytes, and at most once; after a successful AutoCorrect Format is
\* called once more, on the corrected bytes; a failed AutoCorrect or a
\* failed second Format ends the run with exit code 1 and no further call,
\* so there are never more than two calls of Format.
C1_CallOrder ==
  /\ Len(calls) <= 3
  /\ Len(calls) >= 1 =>
       calls[1] = Call("Format", resolved.data, calls[1].res)
  /\ Len(calls) >= 2 =>
       /\ calls[1].res = "err"
       /\ calls[2] = Call("AutoCorrect", resolved.data, calls[2].res)
  /\ Len(calls) >= 3 =>
       /\ calls[2].res = "ok"
       /\ calls[3] = Call("Format", correctedJSON, calls[3].res)
  /\ pc \in {"format", "correct", "reformat"} =>
       Len(calls) = (IF pc = "format" THEN 0 ELSE IF pc = "correct" THEN 1 ELSE 2)
  /\ (pc = "done" /\ resolved.err = "none") =>
       /\ Len(calls) >= 1
       /\ calls[1].res = "err" => Len(calls) >= 2
       /\ (Len(calls) >= 2 /\ calls[2].res = "ok") => Len(calls) = 3
       /\ calls[Len(calls)].res = "err" => exitCode = 1

\* A run in which the correction succeeded and Format was called twice.
C1_Witness ==
  /\ pc = "done"
  /\ Len(calls) = 3
  /\ calls[2].res = "ok"
  /\ calls[3].res = "ok"
  /\ exitCode = 0

\* C2: http.Get is called only with trust-all set or after an affirmative
\* answer at the prompt; with trust-all unset and the answer "no" to the
\* prompt for a URL token, getInput fails with URLAccessDenied and makes
\* no network call.
C2_FetchNeedsTrust ==
  /\ resolved.fetched => (cmdConfig.TrustAllURLs \/ Affirmative(scanned.response))
  /\ ( /\ InputTaken
       /\ Len(args) > 0
       /\ IsHTTPURL(Token)
       /\ ~cmdConfig.TrustAllURLs
       /\ scanned = [response |-> <<"n", "o">>, err |-> FALSE] )
     => (resolved.err = "URLAccessDenied" /\ ~resolved.fetched)

\* The user declines the prompt for an https URL.
C2_Witness ==
  /\ pc = "done"
  /\ args = <<TokHTTPS>>
  /\ ~cmdConfig.TrustAllURLs
  /\ resolved.prompted
  /\ scanned.response = <<"n", "o">>
  /\ resolved.err = "URLAccessDenied"
  /\ exitCode = 1

\* C3: a token with an http:// or https:// shape is never read as a file,
\* and a token without that shape that names a readable file yields the
\* file's bytes as they are, with no prompt, no network call and no
\* validation as literal JSON.
C3_FileBeforeLiteral ==
  (InputTaken /\ Len(args) > 0) =>
    /\ IsHTTPURL(Token) => ~resolved.readFile
    /\ (~IsHTTPURL(Token) /\ Token \in DOMAIN Files) =>
         /\ resolved = Resolved("none", Files[Token], FALSE, FALSE, TRUE, FALSE)

\* C4: a token that is neither an http(s) URL nor the name of a readable
\* file is taken as literal JSON: returned as it is when it is valid JSON,
\* refused with InvalidLiteralInput when it is not.
C4_LiteralFallback ==
  ( /\ InputTaken
    /\ Len(args) > 0
    /\ ~IsHTTPURL(Token)
    /\ Token \notin DOMAIN Files
    /\ TrimSpace(Token) \notin DOMAIN Files )
  => IF Valid(Token)
     THEN resolved.err = "none" /\ resolved.data = Token
     ELSE resolved.err = "InvalidLiteralInput"

\* C5: without a token, getInput returns the bytes of standard input when
\* it is a pipe or a redirected file that can be read, and fails with
\* NoInputProvided only when there is no token and standard input is not
\* redirected.
C5_StdinWhenPiped ==
  InputTaken =>
    /\ (Len(args) = 0 /\ ~stdin.charDevice /\ stdin.fault = "none") =>
         (resolved.err = "none" /\ resolved.data = stdin.data)
    /\ resolved.err = "NoInputProvided" => (Len(args) = 0 /\ stdin.charDevice)

\* ------------------------------------------------------------------------
\* Properties of the formatter
\* ------------------------------------------------------------------------

\* Reading a text from s[i] on, outside string literals: every key of an
\* object is greater than the key before it in the same object.  The
\* stack holds, for each object still open, the last key seen in it.
RECURSIVE KeysAscendFrom(_, _, _)
KeysAscendFrom(s, i, stack) ==
  IF i > Len(s) THEN TRUE
  ELSE IF s[i] = "{"
  THEN KeysAscendFrom(s, i + 1, <<[has |-> FALSE, key |-> <<>>]>> \o stack)
  ELSE IF s[i] = "}" THEN KeysAscendFrom(s, i + 1, Tail(stack))
  ELSE IF s[i] = "\"" THEN
    LET lit == ScanString(s, i + 1, <<>>)
        j == SkipWS(s, lit.i)
    IN  IF ~lit.ok THEN FALSE
        ELSE IF j <= Len(s) /\ s[j] = ":" THEN
          /\ Len(stack) > 0
          /\ (stack[1].has => StrLess(stack[1].key, lit.v))
          /\ KeysAscendFrom(s, j + 1, <<[has |-> TRUE, key |-> lit.v]>> \o Tail(stack))
        ELSE KeysAscendFrom(s, lit.i, stack)
  ELSE KeysAscendFrom(s, i + 1, stack)

KeysAscending(s) == KeysAscendFrom(s, 1, <<>>)

\* The number of occurrences of character c in s.
RECURSIVE CountChar(_, _)
CountChar(s, c) ==
  IF Len(s) = 0 THEN 0
  ELSE (IF s[1] = c THEN 1 ELSE 0) + CountChar(Tail(s), c)

\* First index at or after j that holds no blank.
RECURSIVE SkipBlanks(_, _)
SkipBlanks(s, j) == IF j <= Len(s) /\ s[j] = " " THEN SkipBlanks(s, j + 1) ELSE j

RECURSIVE LineIndented(_, _, _, _)
RECURSIVE RestIndented(_, _, _, _)

\* The line starting at s[i], inside depth open containers, starts with
\* exactly w blanks for each level of its first character (a closing
\* bracket stands one level out), and so do the lines after it.
LineIndented(s, i, depth, w) ==
  LET j == SkipBlanks(s, i)
      level == IF j <= Len(s) /\ s[j] \in {"}", "]"} THEN depth - 1 ELSE depth
  IN  /\ j - i = level * w
      /\ RestIndented(s, j, depth, w)

RestIndented(s, j, depth, w) ==
  IF j > Len(s) THEN depth = 0
  ELSE IF s[j] = "\n" THEN LineIndented(s, j + 1, depth, w)
  ELSE IF s[j] = "\"" THEN
    LET lit == ScanString(s, j + 1, <<>>) IN
      lit.ok /\ RestIndented(s, lit.i, depth, w)
  ELSE IF s[j] \in {"{", "["} THEN RestIndented(s, j + 1, depth + 1, w)
  ELSE IF s[j] \in {"}", "]"} THEN RestIndented(s, j + 1, depth - 1, w)
  ELSE RestIndented(s, j + 1, depth, w)

\* Outside string literals, an opening bracket whose container is empty is
\* followed at once by the closing bracket.
RECURSIVE EmptiesTight(_, _)
EmptiesTight(s, i) ==
  IF i > Len(s) THEN TRUE
  ELSE IF s[i] = "\"" THEN
    LET lit == ScanString(s, i + 1, <<>>) IN lit.ok /\ EmptiesTight(s, lit.i)
  ELSE IF s[i] \in {"{", "["} THEN
    LET j == SkipWS(s, i + 1) IN
      /\ (j <= Len(s) /\ s[j] \in {"}", "]"}) => j = i + 1
      /\ EmptiesTight(s, i + 1)
  ELSE EmptiesTight(s, i + 1)

RECURSIVE LinesOf(_)
RECURSIVE LinesOfAll(_)

\* The number of lines a value takes with one element per line: one for a
\* scalar or an empty container, else the two bracket lines and the lines
\* of the elements.
LinesOf(v) ==
  IF v.t = "arr" /\ Len(v.v) > 0 THEN 2 + LinesOfAll(v.v)
  ELSE IF v.t = "obj" /\ DOMAIN v.v # {}
  THEN 2 + LinesOfAll([k \in 1..Cardinality(DOMAIN v.v) |->
                         v.v[MapKeys(DOMAIN v.v)[k]]])
  ELSE 1

LinesOfAll(elems) ==
  IF Len(elems) = 0 THEN 0 ELSE LinesOf(elems[1]) + LinesOfAll(Tail(elems))

\* C6: with sort keys set, in the output of Format the keys of every
\* object, at every depth, inside arrays and inside other objects, are in
\* strictly ascending byte order.
C6_SortedAtEveryDepth ==
  (stage # "input" /\ opts.SortKeys /\ out.kind = "ok") => KeysAscending(out.bytes)

\* Format with sort keys set has formatted an array that holds an object
\* whose keys came out of order.
C6_Witness ==
  /\ stage = "formatted"
  /\ opts.SortKeys
  /\ data = DocInArray
  /\ out.kind = "ok"
  /\ ~KeysAscending(data)

\* C7 as stated: for every document that is valid JSON and every width
\* w >= 0, Format without sorting succeeds, and its output is valid JSON
\* that decodes to a value deeply equal to the value of the document.
C7_RoundTripEveryValid ==
  (stage # "input" /\ ~opts.SortKeys /\ Valid(data)) =>
    /\ out.kind = "ok"
    /\ ~Unmarshal(out.bytes).err
    /\ DeepEqual(Unmarshal(out.bytes).v, Unmarshal(data).v)

\* C7, amended: for every document that json.Unmarshal decodes (valid JSON
\* whose numbers all fit a float64) and every width w >= 0, Format without
\* sorting succeeds, and its output is valid JSON that decodes to a value
\* deeply equal to the value of the document.
C7_RoundTripDecodable ==
  (stage # "input" /\ ~opts.SortKeys /\ ~Unmarshal(data).err) =>
    /\ out.kind = "ok"
    /\ Valid(out.bytes)
    /\ ~Unmarshal(out.bytes).err
    /\ DeepEqual(Unmarshal(out.bytes).v, Unmarshal(data).v)

\* Format without sorting has formatted numbers written in several
\* notations, and the output is not the input.
C7_Witness ==
  /\ stage = "formatted"
  /\ ~opts.SortKeys
  /\ data = DocNumbers
  /\ out.kind = "ok"
  /\ out.bytes # data

\* C8 as stated: for every document that is valid JSON and whatever the
\* options, formatting the output of Format again succeeds and decodes to
\* the same value as that output.
C8_IdempotentEveryValid ==
  (stage = "reformatted" /\ Valid(data)) =>
    /\ out.kind = "ok"
    /\ out2.kind = "ok"
    /\ ~Unmarshal(out2.bytes).err
    /\ DeepEqual(Unmarshal(out2.bytes).v, Unmarshal(out.bytes).v)

\* C8, amended: for every document that json.Unmarshal decodes (valid JSON
\* whose numbers all fit a float64) and whatever the options, Format
\* succeeds, formatting its output again succeeds, and the second output
\* decodes to the same value as the first.
C8_IdempotentDecodable ==
  (stage = "reformatted" /\ ~Unmarshal(data).err) =>
    /\ out.kind = "ok"
    /\ out2.kind = "ok"
    /\ ~Unmarshal(out.bytes).err
    /\ ~Unmarshal(out2.bytes).err
    /\ DeepEqual(Unmarshal(out2.bytes).v, Unmarshal(out.bytes).v)

\* Format has been applied twice to a string with escapes.
C8_Witness ==
  /\ stage = "reformatted"
  /\ data = DocEscapes
  /\ ~Unmarshal(data).err
  /\ out.kind = "ok"
  /\ out2.kind = "ok"

\* C9: ValidateJSON(b) is true, with no error, exactly when Format(b, opts)
\* returns no error, whatever the options; both refuse the empty input and
\* a truncated object.
C9_ValidateIffFormat ==
  stage \in {"validated", "reformatted"} =>
    /\ valid.valid <=> (out.kind # "err")
    /\ valid.valid <=> ~valid.err
    /\ (data = <<>> \/ data = SubSeq(DocUnsorted, 1, Len(DocUnsorted) - 1)) =>
         (~valid.valid /\ out.kind = "err")

\* Both have refused an object that lacks its closing brace.
C9_Witness ==
  /\ stage = "validated"
  /\ data = SubSeq(DocUnsorted, 1, Len(DocUnsorted) - 1)
  /\ ~valid.valid
  /\ valid.err
  /\ out.kind = "err"

\* C10: in the output of Format with width w, a line at nesting depth d
\* starts with exactly d * w blanks; every element has a line of its own,
\* also when w = 0; an empty object or array is {} or [] with nothing
\* between the brackets.
C10_Layout ==
  (stage # "input" /\ out.kind = "ok") =>
    /\ LineIndented(out.bytes, 1, 0, opts.IndentSpaces)
    /\ CountChar(out.bytes, "\n") + 1 = LinesOf(Unmarshal(data).v)
    /\ EmptiesTight(out.bytes, 1)
    /\ Unmarshal(data).v = Obj(EmptyMap) => out.bytes = <<"{", "}">>
    /\ Unmarshal(data).v = Arr(<<>>) => out.bytes = <<"[", "]">>

\* Width 0 on nested containers, some of them empty: several lines.
C10_Witness ==
  /\ stage = "formatted"
  /\ opts.IndentSpaces = 0
  /\ data = DocInArray
  /\ out.kind = "ok"
  /\ CountChar(out.bytes, "\n") = 5

\* ------------------------------------------------------------------------
\* Properties of AutoCorrect
\* ------------------------------------------------------------------------

\* The three single-line texts of the repair scenario.
SingleLineDefects == {DocJohnBoth, DocJohnComma, DocJohnKey}

\* C11: AutoCorrect repairs a single-line object whose only defects are an
\* unquoted key and/or a trailing comma before the closing brace: given
\* {name:"John","age":30,} it returns {"name":"John","age":30}; given
\* {"name":"John","age":30,} and given {name:"John","age":30} it returns
\* without error; and each time the returned bytes are valid JSON that
\* Format accepts.
C11_RepairsSingleLine ==
  /\ (cstage # "input" /\ text \in SingleLineDefects) => ~corrected.err
  /\ (cstage # "input" /\ text = DocJohnBoth) => corrected.bytes = DocJohnValid
  /\ (cstage \in {"checked", "retried"} /\ text \in SingleLineDefects) => checked.valid
  /\ (cstage = "retried" /\ text \in SingleLineDefects) => retried.kind = "ok"

\* C12: for every input that is already valid JSON, AutoCorrect returns
\* without error, and the bytes it returns are valid JSON.
C12_ValidStaysValid ==
  (cstage # "input" /\ ValidateJSON(text).valid) =>
    /\ ~corrected.err
    /\ cstage \in {"checked", "retried"} => checked.valid

\* C13: AutoCorrect makes one repair pass and then validates: the bytes it
\* returns are the text after that one pass and are valid JSON; when the
\* text after one pass is still invalid, as for {name:"John","age:30, it
\* returns an error and no bytes, also when a second pass would have
\* repaired it.
C13_OnePassThenValidate ==
  /\ (cstage # "input" /\ ~corrected.err) => corrected.bytes = correctedText(text)
  /\ cstage \in {"checked", "retried"} => checked.valid /\ ~checked.err
  /\ (cstage # "input" /\ ~Valid(correctedText(text))) =>
       corrected.err /\ corrected.bytes = <<>>
  /\ (cstage # "input" /\ text = DocJohnSevere) => corrected.err

\* C13 happens: the text with two trailing commas is refused, though the
\* text one pass makes of it is one that AutoCorrect repairs.
C13_Witness ==
  /\ cstage = "corrected"
  /\ text = DocTwoCommas
  /\ corrected.err
  /\ ~AutoCorrect(correctedText(text)).err

\* The key repair as the claim words it: the candidate is wrapped unless
\* it both begins and ends with a double quote.
ClaimedLine(line) ==
  IF ~Contains(line, <<":">>) THEN line
  ELSE LET key == TrimSpace(SubSeq(line, 1, Index(line, <<":">>) - 1))
       IN  IF HasPrefix(key, <<"\"">>) /\ HasSuffix(key, <<"\"">>) THEN line
           ELSE ReplaceFirst(line, key, <<"\"">> \o key \o <<"\"">>)

\* C18: in the key repair, on every line with a ':', the candidate key
\* (the text before the first ':', trimmed) is put in double quotes
\* exactly when it does not both begin and end with a double quote, so a
\* candidate with a quote at one end only is wrapped too; the quotes go
\* around the first occurrence of the candidate and the rest of the line,
\* and every line without ':', stays as it is.
C18_WrapUnlessQuotedBothEnds ==
  cstage # "input" =>
    /\ Len(fixed) = Len(Split(text, "\n"))
    /\ \A k \in 1..Len(fixed) : fixed[k] = ClaimedLine(Split(text, "\n")[k])

\* ------------------------------------------------------------------------
\* Properties of the sinks, the retry, the config package and key order
\* ------------------------------------------------------------------------

\* The last formatter call main made returned bytes.
Formatted == Len(calls) > 0 /\ calls[Len(calls)] = Call("Format", calls[Len(calls)].arg, "ok")

\* C14: once formatting has succeeded, a failure of the clipboard sink or
\* of the file sink is only reported: each sink that is asked for is tried
\* whatever became of the other, and the run ends with exit code 0; exit
\* code 1 comes only from a failed input resolution or from a failed
\* Format or AutoCorrect.
C14_SinkFailuresNotFatal ==
  /\ (pc = "done" /\ Formatted) =>
       /\ exitCode = 0
       /\ cmdConfig.CopyToClipboard => clipboard \in {"copied", "failed"}
       /\ cmdConfig.OutputDir # <<>> => saved \in {"saved", "failed"}
  /\ exitCode = 1 =>
       \/ resolved.err # "none"
       \/ Len(calls) > 0 /\ calls[Len(calls)].res = "err"

\* C14 happens: both sinks were tried, both failed, and the run ended
\* with exit code 0.
C14_Witness ==
  /\ pc = "done"
  /\ Formatted
  /\ clipboard = "failed"
  /\ saved = "failed"
  /\ exitCode = 0

\* C19: whenever AutoCorrect succeeds in the driver and the indent width is
\* not negative, the Format that follows on the corrected bytes succeeds,
\* whatever the sort setting, and the run ends with exit code 0: the run
\* never ends on a failed Format of corrected JSON.
C19_RetrySucceeds ==
  (Len(calls) >= 3 /\ calls[2].res = "ok" /\ cmdConfig.IndentSpaces >= 0) =>
    /\ calls[2].fn = "AutoCorrect"
    /\ calls[3] = Call("Format", correctedJSON, "ok")
    /\ pc = "done" => exitCode = 0

\* C19 happens: a run whose first Format failed, whose AutoCorrect
\* succeeded, and whose second Format gave the output, with sorting on.
C19_Witness ==
  /\ pc = "done"
  /\ Len(calls) = 3
  /\ calls[1].res = "err"
  /\ calls[2] = Call("AutoCorrect", inputData, "ok")
  /\ calls[3].res = "ok"
  /\ cmdConfig.SortKeys
  /\ cmdConfig.IndentSpaces = 0
  /\ exitCode = 0

\* utf8.Valid: the string is a sequence of encoded runes.
RECURSIVE ValidUTF8(_)
ValidUTF8(str) ==
  \/ Len(str) = 0
  \/ /\ utf8Size(str, 1) > 0
     /\ ValidUTF8(SubSeq(str, utf8Size(str, 1) + 1, Len(str)))

\* C15 as stated: for every Config c, after SaveConfig(c) succeeds,
\* LoadConfig returns without error a Config equal to c in every field.
C15_RoundTripEveryConfig ==
  (kstage = "loaded" /\ ~saveErr) => ~loaded.err /\ loaded.config = cfg

\* C15, amended: for every Config c whose OutputDir and LogFilePath are
\* valid UTF-8, after SaveConfig(c) succeeds, LoadConfig returns without
\* error a Config equal to c in every field.
C15_RoundTripUTF8 ==
  (kstage = "loaded" /\ ~saveErr
     /\ ValidUTF8(cfg.OutputDir) /\ ValidUTF8(cfg.LogFilePath)) =>
    /\ ~loaded.err
    /\ \A n \in FieldNames : loaded.config[n] = cfg[n]

\* C15 happens: a Config whose path has a quote in it was saved over a
\* file that did not parse, and loaded back equal.
C15_Witness ==
  /\ kstage = "loaded"
  /\ ~saveErr
  /\ cfg.LogFilePath = PathQuote
  /\ cfg.IndentSpaces = 4
  /\ configFile.state = "present"
  /\ loaded = [err |-> FALSE, config |-> cfg]

\* C16: DefaultConfig returns IndentSpaces = 2, SortKeys = false and
\* CopyToClipboard = true, so the Config that LoadConfig hands out when
\* there is no config file to read copies to the clipboard.
C16_DefaultCopiesToClipboard ==
  kstage = "loaded" =>
    /\ DefaultConfig.IndentSpaces = 2
    /\ DefaultConfig.SortKeys = FALSE
    /\ DefaultConfig.CopyToClipboard = TRUE
    /\ loaded.err => loaded.config.CopyToClipboard = TRUE

\* The keys of a text, in the order they stand in it: the string literals
\* that a ':' follows.
RECURSIVE KeySeq(_, _)
KeySeq(s, i) ==
  IF i > Len(s) THEN <<>>
  ELSE IF s[i] = "\"" THEN
    LET lit == ScanString(s, i + 1, <<>>)
        j == SkipWS(s, lit.i)
    IN  IF ~lit.ok THEN <<>>
        ELSE IF j <= Len(s) /\ s[j] = ":" THEN <<lit.v>> \o KeySeq(s, j + 1)
        ELSE KeySeq(s, lit.i)
  ELSE KeySeq(s, i + 1)

\* C17: when sort keys is not set, Format writes the keys of each object
\* in the order the input document has them (said here of the documents
\* in which no object repeats a key, so that none is dropped); keys are
\* put in ascending order only when sort keys is set.
C17_InsertionOrderKept ==
  (stage = "formatted" /\ out.kind = "ok" /\ ~opts.SortKeys
     /\ Len(KeySeq(out.bytes, 1)) = Len(KeySeq(data, 1))) =>
    KeySeq(out.bytes, 1) = KeySeq(data, 1)

\* C20: the sort keys option shows in the output of Format: for some
\* valid document and some width, Format with sort keys set and Format
\* with it not set return different bytes.
C20_SortKeysObservable ==
  stage = "formatted" =>
    \E d \in Inputs, w \in 0..MaxIndent :
      /\ Format(d, [IndentSpaces |-> w, SortKeys |-> TRUE]).kind = "ok"
      /\ Format(d, [IndentSpaces |-> w, SortKeys |-> TRUE])
           # Format(d, [IndentSpaces |-> w, SortKeys |-> FALSE])

\* ------------------------------------------------------------------------
\* Properties of the indent width
\* ------------------------------------------------------------------------

\* C21: the indent width that reaches Format is never negative, whatever
\* the -indent flag and the loaded configuration were, so every call of
\* Format returns bytes or an error and the process is never aborted.
C21_IndentNeverNegative ==
  /\ Len(calls) > 0 => Options.IndentSpaces >= 0
  /\ \A k \in 1..Len(calls) : calls[k].fn = "Format" => calls[k].res \in {"ok", "err"}

====
